---- MODULE Spec2Model ----
(***************************************************************************)
(* IdeaForge server: the resilient transport (exponentialBackoffFetch),    *)
(* the backend adapters (callOllama, callGemini, callOpenAI,               *)
(* callHuggingFace), generateShortTitle and the four task endpoints        *)
(* (/api/inspire, /api/synthesize, /api/critique, /api/refine-title).      *)
(*                                                                         *)
(* Node runs one handler segment at a time: an action is the code that     *)
(* runs between two awaits.                                                *)
(***************************************************************************)
EXTENDS Integers, Sequences, FiniteSets, TLC

(***************************************************************************)
(* Bounds of the model.                                                    *)
(***************************************************************************)
\* largest maxRetries argument tried in the transport-only specification
MaxRetriesBound == 3
\* Math.random() is drawn from {0/RandomGrain, ..., (RandomGrain-1)/RandomGrain}
RandomGrain == 5
\* the ids crypto.randomUUID() hands out to the client are 1..MaxIds
MaxIds == 3
\* the ids of the trees the delete-only specification starts from are
\* 1..MaxTreeIds
MaxTreeIds == 4
\* most nodes a user selects at a time
MaxSelected == 2
\* most AI requests of the client in flight at a time
MaxInFlight == 1
\* most parts or critique points one response adds
MaxParts == 2
\* last value of Date.now() in the projects-table specification
MaxClock == 3
\* largest number of items the numbered-list parser finds in a backend text
MaxItems == 2
\* most requests one IP sends to the task endpoints in one limiter window
MaxArrivals == 12
\* most lines of a text handed to parseNumberedList
MaxLines == 4
\* most tokens of such a text, numbering prefixes not counted
MaxTokens == 4

(***************************************************************************)
(* Program constants.                                                      *)
(***************************************************************************)
\* exponentialBackoffFetch(url, options = {}, maxRetries = 5)
DefaultMaxRetries == 5
\* let baseDelay = 500
baseDelay == 500
\* Math.floor(Math.random() * 200)
JitterSpan == 200
\* critiquePoints = parseNumberedList(output).slice(0, 3)
CritiqueLimit == 3
\* aiLimiter: max: 10
AiMax == 10
\* the client's parseNumberedList: return items.slice(0, 3)
ClientLimit == 3
\* (it.split('\n')[0] || '').slice(0, 80)
TitleLimit == 80

\* the two fetch-call slots: in a task request slot 1 is the first backend's
\* call and slot 2 the fallback backend's call
Calls == {1, 2}

\* HTTP statuses a backend answers with; res.ok is status in 200..299
StatusCodes == {200, 429, 500}

ok(status) == status >= 200 /\ status <= 299

\* Bodies of a response: "expected" is the shape the adapter reads its text
\* from, "otherJson" is JSON without the expected fields, "errorJson" is JSON
\* with an error field and no text, "notJson" is a body JSON.parse rejects,
\* "nullText" has the expected text field with the value null, and
\* "nonStringText" has it with a truthy value that is not a string.  items
\* is the number of items parseNumberedList finds in the text the adapter
\* returns for that body.
Bodies ==
    {[shape |-> "expected", items |-> k] : k \in 0..MaxItems}
      \cup {[shape |-> "otherJson", items |-> 1],
            [shape |-> "errorJson", items |-> 1],
            [shape |-> "notJson", items |-> 1],
            [shape |-> "notJson", items |-> 0],
            [shape |-> "nullText", items |-> 1],
            [shape |-> "nonStringText", items |-> 1]}

\* an error status carries an error document or plain text
Responses ==
    {r \in [status : StatusCodes, body : Bodies] :
        r.body.shape \in {"expected", "otherJson", "nullText", "nonStringText"}
            => ok(r.status)}

NoResponse == [status |-> 0, body |-> [shape |-> "none", items |-> 0]]

\* Error objects.  inv is the fetch invocation that threw it (0 when the
\* error does not come from an invocation), status the status it quotes.
Err(kind, inv, status) == [kind |-> kind, inv |-> inv, status |-> status]

NoError == Err("none", 0, 0)

VARIABLES
    fetchCall,   \* slot -> the locals of one exponentialBackoffFetch call
    hist,        \* slot -> what the fetch invocations of that call did so far
    env,         \* process.env and the constants read from it at startup
    req,         \* the request body and its endpoint
    pc,          \* where the endpoint handler is suspended
    genCalls,    \* the adapter calls made for the request, in call order
    output,      \* the handler's local `output`
    items,       \* the handler's local `items`
    titles,      \* item index -> the settled result of its title promise
    log,         \* the logger records written for the request
    response,    \* what the handler sent with res.status(..).json(..)
    aiLimiter,   \* the hits aiLimiter counted for one IP in the current window
    handled,     \* endpoint -> the requests of that IP, in the current
                 \* window, that reached the endpoint's handler
    txt,         \* the argument of a parseNumberedList call
    parsed,      \* what that call returned
    payload,     \* the body callGemini received
    extracted,   \* what callGemini returned for it
    projects,    \* the rows of the projects table, by id
    clock,       \* Date.now()
    firstSaved,  \* project id -> the time of the save that created its row
    dbReply,     \* the status of the last answer of a /api/projects endpoint
    ideaTree,    \* the client's ideaTree array
    nodes,       \* the ids of the vis DataSet `nodes`
    edges,       \* the vis DataSet `edges`
    selectionSet,\* the client's selectionSet, in insertion order
    nextId,      \* the next value of crypto.randomUUID()
    pending,     \* the AI requests of the client that wait for their response
    dialog,      \* the alert or confirm the last handler showed
    spliced      \* the ids the last handler collected in nodesToRemove

vars == <<fetchCall, hist, env, req, pc, genCalls, output, items, titles,
          log, response, aiLimiter, handled, txt, parsed, payload, extracted,
          projects, clock, firstSaved, dbReply, ideaTree, nodes, edges,
          selectionSet, nextId, pending, dialog, spliced>>

\* the variables of the rate limiter and of the parser
gateVars == <<aiLimiter, handled>>

parseVars == <<txt, parsed>>

extractVars == <<payload, extracted>>

storeVars == <<projects, clock, firstSaved, dbReply>>

clientVars ==
    <<ideaTree, nodes, edges, selectionSet, nextId, pending, dialog, spliced>>

orchVars == <<env, req, pc, genCalls, output, items, titles, log, response>>

(***************************************************************************)
(* exponentialBackoffFetch                                                 *)
(***************************************************************************)
IdleCall ==
    [state |-> "idle", maxRetries |-> 0, attempt |-> 0, fetches |-> 0,
     delay |-> 0, res |-> NoResponse, err |-> NoError]

NoHist == [last |-> "none", all5xx |-> TRUE, allThrew |-> TRUE]

\* entry of the function up to the first `await fetch(url, options)`
StartFetch(maxRetries) ==
    [state |-> "waiting", maxRetries |-> maxRetries, attempt |-> 0,
     fetches |-> 1, delay |-> 0, res |-> NoResponse, err |-> NoError]

Pow2(n) == IF n <= 0 THEN 1 ELSE 2 ^ n

\* Math.floor(Math.random() * 200) for the draw rnd / RandomGrain
Jitter(rnd) == (rnd * JitterSpan) \div RandomGrain

\* variant: the exponent is attempt instead of attempt - 1
BackoffDelayOffByOne(attempt, rnd) == baseDelay * Pow2(attempt) + Jitter(rnd)

\* baseDelay * Math.pow(2, attempt - 1) + Math.floor(Math.random() * 200)
BackoffDelay(attempt, rnd) == baseDelay * Pow2(attempt - 1) + Jitter(rnd)

\* variant: the error is rethrown one failure later
CatchBlockOneMore(fc, err, rnd) ==
    LET attempt == fc.attempt + 1 IN
    IF attempt > fc.maxRetries + 1
    THEN [fc EXCEPT !.attempt = attempt, !.state = "threw", !.err = err]
    ELSE [fc EXCEPT !.attempt = attempt, !.state = "delaying",
                    !.delay = BackoffDelay(attempt, rnd)]

\* variant: the error rethrown is the one remembered from the first failure
CatchBlockFirstError(fc, err, rnd) ==
    LET attempt == fc.attempt + 1 IN
    IF attempt > fc.maxRetries
    THEN [fc EXCEPT !.attempt = attempt, !.state = "threw",
                    !.err = [err EXCEPT !.inv = 1]]
    ELSE [fc EXCEPT !.attempt = attempt, !.state = "delaying",
                    !.delay = BackoffDelay(attempt, rnd)]

\* the catch block: attempt++, rethrow when attempt > maxRetries, else wait
CatchBlock(fc, err, rnd) ==
    LET attempt == fc.attempt + 1 IN
    IF attempt > fc.maxRetries
    THEN [fc EXCEPT !.attempt = attempt, !.state = "threw", !.err = err]
    ELSE [fc EXCEPT !.attempt = attempt, !.state = "delaying",
                    !.delay = BackoffDelay(attempt, rnd)]

\* variant: a 5xx status throws on the last attempt too
ShouldRetryAlways5xx(res, attempt, maxRetries) ==
    ~ok(res.status) /\ res.status >= 500

\* variant: every non-ok status is retried
ShouldRetryAnyError(res, attempt, maxRetries) ==
    ~ok(res.status) /\ attempt < maxRetries

\* `if (!res.ok) { if (res.status >= 500 && attempt < maxRetries) throw ... }`
ShouldRetry(res, attempt, maxRetries) ==
    ~ok(res.status) /\ res.status >= 500 /\ attempt < maxRetries

\* the try block after fetch resolved with res
TryBlock(fc, res, rnd) ==
    IF ShouldRetry(res, fc.attempt, fc.maxRetries)
    THEN CatchBlock(fc, Err("server", fc.fetches, res.status), rnd)
    ELSE [fc EXCEPT !.state = "returned", !.res = res]

\* the draws of Math.random(); it is called only on the path that waits
RandomDraws(waits) == IF waits THEN 0..(RandomGrain - 1) ELSE {0}

StatusClass(status) ==
    IF status >= 500 THEN "5xx"
    ELSE IF status >= 400 THEN "4xx"
    ELSE "2xx"

\* variant: attempt is one counter shared by the calls in flight
FetchRejectsShared(c) ==
    /\ fetchCall[c].state = "waiting"
    /\ \E rnd \in RandomDraws(fetchCall[c].attempt < fetchCall[c].maxRetries) :
          fetchCall' = [d \in Calls |->
              IF d = c THEN CatchBlock(fetchCall[c], Err("fetch", fetchCall[c].fetches, 0), rnd)
              ELSE IF fetchCall[d].state = "idle" THEN fetchCall[d]
              ELSE [fetchCall[d] EXCEPT !.attempt = @ + 1]]
    /\ hist' = [hist EXCEPT ![c] = [last |-> "threw", all5xx |-> FALSE,
                                    allThrew |-> @.allThrew]]
    /\ UNCHANGED <<orchVars, gateVars, parseVars, extractVars, storeVars, clientVars>>

\* fetch rejects (connection failure): the error of this invocation is caught
FetchRejects(c) ==
    /\ fetchCall[c].state = "waiting"
    /\ \E rnd \in RandomDraws(fetchCall[c].attempt < fetchCall[c].maxRetries) :
          fetchCall' = [fetchCall EXCEPT
              ![c] = CatchBlock(@, Err("fetch", @.fetches, 0), rnd)]
    /\ hist' = [hist EXCEPT ![c] = [last |-> "threw", all5xx |-> FALSE,
                                    allThrew |-> @.allThrew]]
    /\ UNCHANGED <<orchVars, gateVars, parseVars, extractVars, storeVars, clientVars>>

\* fetch resolves with a response
FetchResolves(c) ==
    /\ fetchCall[c].state = "waiting"
    /\ \E res \in Responses :
        \E rnd \in RandomDraws(ShouldRetry(res, fetchCall[c].attempt,
                                           fetchCall[c].maxRetries)) :
          /\ fetchCall' = [fetchCall EXCEPT ![c] = TryBlock(@, res, rnd)]
          /\ hist' = [hist EXCEPT
                ![c] = [last |-> StatusClass(res.status),
                        all5xx |-> @.all5xx /\ res.status >= 500,
                        allThrew |-> FALSE]]
    /\ UNCHANGED <<orchVars, gateVars, parseVars, extractVars, storeVars, clientVars>>

\* the setTimeout of the catch block fires: the loop calls fetch again
TimerFires(c) ==
    /\ fetchCall[c].state = "delaying"
    /\ fetchCall' = [fetchCall EXCEPT ![c].state = "waiting",
                                      ![c].fetches = @ + 1,
                                      ![c].delay = 0]
    /\ UNCHANGED <<hist, orchVars, gateVars, parseVars, extractVars, storeVars, clientVars>>

Transport == \E c \in Calls : FetchRejects(c) \/ FetchResolves(c) \/ TimerFires(c)

(***************************************************************************)
(* Transport-only specification: one exponentialBackoffFetch call with a   *)
(* maxRetries argument taken from 0..MaxRetriesBound.                      *)
(***************************************************************************)
NoEnv ==
    [OLLAMA_URL |-> FALSE, GEMINI_API_KEY |-> FALSE, OPENAI_API_KEY |-> FALSE,
     HUGGINGFACE_API_KEY |-> FALSE, PREFERRED_PROVIDER |-> "",
     production |-> FALSE]

NoRequest == [task |-> "none", content |-> FALSE, concepts |-> 0]

NoOutput == [origin |-> "none", status |-> 0, kind |-> "none", items |-> 0]

\* a response: text is the backend text its output field is built from,
\* count the number of points or ideas, ideas the ideas array of inspire
Reply(status, code, fields, message, text, count) ==
    [status |-> status, code |-> code, fields |-> fields, message |-> message,
     text |-> text, count |-> count, ideas |-> <<>>]

NoReply == Reply(0, "", {}, NoError, NoOutput, 0)

\* no request went through the rate limiter
NoTraffic ==
    /\ aiLimiter = 0
    /\ handled = [t \in {"inspire", "synthesize", "critique", "refine-title"} |-> 0]

\* parseNumberedList was not called
NoParse ==
    /\ txt = <<>>
    /\ parsed = [by |-> "none", items |-> <<>>]

\* callGemini was not given a body
NoExtract ==
    /\ payload = [json |-> FALSE, A |-> "absent", B |-> "absent",
                  C |-> "absent", D |-> "absent"]
    /\ extracted = "none"

ProjectIds == {"p1", "p2"}

NoRow == [stored |-> FALSE, createdAt |-> 0, updatedAt |-> 0]

\* the projects table is empty
NoStore ==
    /\ projects = [id \in ProjectIds |-> NoRow]
    /\ clock = 0
    /\ firstSaved = [id \in ProjectIds |-> 0]
    /\ dbReply = 0

\* the page is not open
NoClient ==
    /\ ideaTree = {}
    /\ nodes = {}
    /\ edges = {}
    /\ selectionSet = <<>>
    /\ nextId = 0
    /\ pending = {}
    /\ dialog = [text |-> "none", ok |-> FALSE]
    /\ spliced = {}

InitFetch ==
    /\ \E n \in 0..MaxRetriesBound :
          fetchCall = [c \in Calls |-> IF c = 1 THEN StartFetch(n) ELSE IdleCall]
    /\ hist = [c \in Calls |-> NoHist]
    /\ env = NoEnv
    /\ req = NoRequest
    /\ pc = "none"
    /\ genCalls = <<>>
    /\ output = NoOutput
    /\ items = <<>>
    /\ titles = <<>>
    /\ log = <<>>
    /\ response = NoReply
    /\ NoTraffic
    /\ NoParse
    /\ NoExtract
    /\ NoStore
    /\ NoClient

NextFetch == Transport

SpecFetch == InitFetch /\ [][NextFetch]_vars

\* every fetch promise settles and every setTimeout fires
FairFetch == WF_vars(NextFetch)

SpecFetchFair == InitFetch /\ [][NextFetch]_vars /\ FairFetch

(***************************************************************************)
(* Two exponentialBackoffFetch calls in flight at once, each with its own  *)
(* maxRetries argument, their steps interleaved in every order.            *)
(***************************************************************************)
InitFetchPair ==
    /\ \E n \in [Calls -> 0..MaxRetriesBound] :
          fetchCall = [c \in Calls |-> StartFetch(n[c])]
    /\ hist = [c \in Calls |-> NoHist]
    /\ env = NoEnv
    /\ req = NoRequest
    /\ pc = "none"
    /\ genCalls = <<>>
    /\ output = NoOutput
    /\ items = <<>>
    /\ titles = <<>>
    /\ log = <<>>
    /\ response = NoReply
    /\ NoTraffic
    /\ NoParse
    /\ NoExtract
    /\ NoStore
    /\ NoClient

NextFetchPair == Transport

SpecFetchPair == InitFetchPair /\ [][NextFetchPair]_vars

(***************************************************************************)
(* Backend adapters.  Each is applied to the settled exponentialBackoffFetch*)
(* call fc and either throws err or returns text.                          *)
(***************************************************************************)
\* a text: the backend it came from, the status of the response it was read
\* from, how it was obtained, and the items parseNumberedList finds in it.
\* kind "null" is the value null where a text was due, kind "nonString" a
\* truthy value that is not a string.
Text(origin, status, kind, n) ==
    [origin |-> origin, status |-> status, kind |-> kind, items |-> n]

Returns(text) == [threw |-> FALSE, err |-> NoError, text |-> text]

Throws(err) == [threw |-> TRUE, err |-> err, text |-> NoOutput]

\* variant: the status of the response is not looked at
callOllamaLenient(fc) ==
    IF fc.state = "threw" THEN Throws(fc.err)
    ELSE IF fc.res.body.shape = "expected"
         THEN Returns(Text("ollama", fc.res.status, "generated", fc.res.body.items))
    ELSE Returns(Text("ollama", fc.res.status, "raw", fc.res.body.items))

\* throws on !res.ok; json.response || text, and the raw text when
\* JSON.parse throws
callOllama(fc) ==
    IF fc.state = "threw" THEN Throws(fc.err)
    ELSE IF ~ok(fc.res.status)
         THEN Throws(Err("ollamaStatus", 0, fc.res.status))
    ELSE IF fc.res.body.shape = "expected"
         THEN Returns(Text("ollama", fc.res.status, "generated", fc.res.body.items))
    ELSE IF fc.res.body.shape = "nonStringText"
         THEN Returns(Text("ollama", fc.res.status, "nonString", 0))
    ELSE Returns(Text("ollama", fc.res.status, "raw", fc.res.body.items))

\* variant: a payload of no known shape is reported as an error
callGeminiStrict(fc) ==
    IF fc.state = "threw" THEN Throws(fc.err)
    ELSE IF fc.res.body.shape = "expected"
         THEN Returns(Text("gemini", fc.res.status, "generated", fc.res.body.items))
    ELSE Throws(Err("shape", 0, fc.res.status))

\* the candidates/output cascade, JSON.stringify(json) when no shape
\* matches or the text is falsy, the raw text when JSON.parse throws;
\* res.ok is not looked at
callGemini(fc) ==
    IF fc.state = "threw" THEN Throws(fc.err)
    ELSE IF fc.res.body.shape = "expected"
         THEN Returns(Text("gemini", fc.res.status, "generated", fc.res.body.items))
    ELSE IF fc.res.body.shape = "nonStringText"
         THEN Returns(Text("gemini", fc.res.status, "nonString", 0))
    ELSE IF fc.res.body.shape \in {"otherJson", "errorJson", "nullText"}
         THEN Returns(Text("gemini", fc.res.status, "serialized", fc.res.body.items))
    ELSE Returns(Text("gemini", fc.res.status, "raw", fc.res.body.items))

\* choices[0].message.content whatever its value, JSON.stringify(json) when
\* there is no choices[0].message, the raw text when JSON.parse throws;
\* res.ok is not looked at
callOpenAI(fc) ==
    IF fc.state = "threw" THEN Throws(fc.err)
    ELSE IF fc.res.body.shape = "expected"
         THEN Returns(Text("openai", fc.res.status, "generated", fc.res.body.items))
    ELSE IF fc.res.body.shape = "nullText"
         THEN Returns(Text("openai", fc.res.status, "null", 0))
    ELSE IF fc.res.body.shape = "nonStringText"
         THEN Returns(Text("openai", fc.res.status, "nonString", 0))
    ELSE IF fc.res.body.shape \in {"otherJson", "errorJson"}
         THEN Returns(Text("openai", fc.res.status, "serialized", fc.res.body.items))
    ELSE Returns(Text("openai", fc.res.status, "raw", fc.res.body.items))

\* throws on !res.ok; generated_text, JSON.stringify(j) otherwise; the throw
\* on j.error is caught by the catch of the same try, which returns the raw
\* text, as it does when JSON.parse throws
callHuggingFace(fc) ==
    IF fc.state = "threw" THEN Throws(fc.err)
    ELSE IF ~ok(fc.res.status)
         THEN Throws(Err("hfStatus", 0, fc.res.status))
    ELSE IF fc.res.body.shape = "expected"
         THEN Returns(Text("huggingface", fc.res.status, "generated", fc.res.body.items))
    ELSE IF fc.res.body.shape = "nonStringText"
         THEN Returns(Text("huggingface", fc.res.status, "nonString", 0))
    ELSE IF fc.res.body.shape \in {"otherJson", "nullText"}
         THEN Returns(Text("huggingface", fc.res.status, "serialized", fc.res.body.items))
    ELSE Returns(Text("huggingface", fc.res.status, "raw", fc.res.body.items))

Adapter(backend, fc) ==
    CASE backend = "ollama" -> callOllama(fc)
      [] backend = "gemini" -> callGemini(fc)
      [] backend = "openai" -> callOpenAI(fc)
      [] OTHER -> callHuggingFace(fc)

\* the backend generateShortTitle calls
generateShortTitle(e) ==
    LET preferred == e.PREFERRED_PROVIDER IN
    IF preferred = "ollama" THEN "ollama"
    ELSE IF preferred = "openai"
            \/ (preferred = "" /\ e.OPENAI_API_KEY /\ ~e.GEMINI_API_KEY)
         THEN "openai"
    ELSE IF preferred = "huggingface"
            \/ (preferred = "" /\ e.HUGGINGFACE_API_KEY /\ ~e.GEMINI_API_KEY
                /\ ~e.OPENAI_API_KEY)
         THEN "huggingface"
    ELSE "gemini"

(***************************************************************************)
(* Routing: the backend an endpoint calls first ("none": it throws         *)
(* 'No AI provider available').                                            *)
(***************************************************************************)
InspireRoute(e) ==
    IF e.OLLAMA_URL THEN "ollama"
    ELSE IF e.GEMINI_API_KEY THEN "gemini"
    ELSE IF e.OPENAI_API_KEY THEN "openai"
    ELSE "none"

\* variant: synthesize tries the local backend first
SynthesizeRouteLocalFirst(e) ==
    IF e.OLLAMA_URL THEN "ollama"
    ELSE IF e.GEMINI_API_KEY THEN "gemini"
    ELSE IF e.OPENAI_API_KEY THEN "openai"
    ELSE "none"

SynthesizeRoute(e) ==
    IF e.GEMINI_API_KEY THEN "gemini"
    ELSE IF e.OLLAMA_URL THEN "ollama"
    ELSE IF e.OPENAI_API_KEY THEN "openai"
    ELSE "none"

CritiqueRoute(e) ==
    IF e.GEMINI_API_KEY THEN "gemini"
    ELSE IF e.OLLAMA_URL THEN "ollama"
    ELSE IF e.OPENAI_API_KEY THEN "openai"
    ELSE "none"

RefineTitleRoute(e) ==
    IF e.OLLAMA_URL THEN "ollama"
    ELSE IF e.GEMINI_API_KEY THEN "gemini"
    ELSE IF e.OPENAI_API_KEY THEN "openai"
    ELSE "none"

\* the catch (geminiErr) block of synthesize and critique: the backend called
\* after Gemini threw ("none": geminiErr is re-thrown)
GeminiFallback(e) == IF e.OLLAMA_URL THEN "ollama" ELSE "none"

\* whether the endpoint has an inner try around its first backend call
HasInnerTry(task, backend) ==
    task \in {"synthesize", "critique"} /\ backend = "gemini"

(***************************************************************************)
(* The task endpoints.                                                     *)
(***************************************************************************)
Tasks == {"inspire", "synthesize", "critique", "refine-title"}

\* variant: the log line does not name the backend
LogAnonymous(level, event, task, backend) ==
    [level |-> level, event |-> event, task |-> task, backend |-> ""]

\* a logger call: its level, what it reports, and the task and the backend
\* its message names ("" when it names none)
Log(level, event, task, backend) ==
    [level |-> level, event |-> event, task |-> task, backend |-> backend]

GenCall(task, backend, phase, slot) ==
    [task |-> task, backend |-> backend, phase |-> phase, slot |-> slot,
     result |-> "pending"]

\* 'Please try again later.'
GenericMessage == Err("generic", 0, 0)

\* the task the error log of the catch (apiErr) block names
ApiErrTask(task) == IF task = "inspire" THEN "" ELSE task

\* variant: the message is apiErr.message in every mode
Reply503Leaky(task, e, err) ==
    Reply(503, "AI_SERVICE_ERROR", {"error", "code", "message"}, err, NoOutput, 0)

\* res.status(503).json({error, code [, message]}) of the catch (apiErr) block
Reply503(task, e, err) ==
    IF task = "inspire"
    THEN Reply(503, "AI_SERVICE_ERROR", {"error", "code", "message"},
               IF e.production THEN GenericMessage ELSE err, NoOutput, 0)
    ELSE Reply(503, "AI_SERVICE_ERROR", {"error", "code"}, NoError, NoOutput, 0)

\* variant: only the concepts array is validated
ValidConceptsOnly(r) ==
    IF r.task = "synthesize" THEN r.concepts >= 2 ELSE TRUE

\* the validation at the head of each handler
Valid(r) ==
    IF r.task = "synthesize" THEN r.concepts >= 2 ELSE r.content

\* variant: a validation failure is answered with 422
Reply400Unprocessable(task) ==
    IF task = "synthesize"
    THEN Reply(422, "INVALID_INPUT", {"error", "code"}, NoError, NoOutput, 0)
    ELSE Reply(422, "MISSING_CONTENT", {"error", "code"}, NoError, NoOutput, 0)

\* res.status(400).json({error, code}) of the validation blocks
Reply400(task) ==
    IF task = "synthesize"
    THEN Reply(400, "INVALID_INPUT", {"error", "code"}, NoError, NoOutput, 0)
    ELSE Reply(400, "MISSING_CONTENT", {"error", "code"}, NoError, NoOutput, 0)

\* the handler sends its response and returns
Finish(fc, gc, lg, out, reply) ==
    /\ fetchCall' = fc
    /\ genCalls' = gc
    /\ log' = lg
    /\ output' = out
    /\ response' = reply
    /\ pc' = "done"
    /\ UNCHANGED <<hist, env, req, items, titles,
                 gateVars, parseVars, extractVars, storeVars, clientVars>>

\* variant: the catch block falls through to the success response
UnavailableFallsThrough(fc, gc, lg, err) ==
    Finish(fc, gc,
           Append(lg, Log("error", "apiFailed", ApiErrTask(req.task), "")),
           output,
           Reply(200, "", {"id", "synthesized"}, NoError, output, 1))

\* the catch (apiErr) block
Unavailable(fc, gc, lg, err) ==
    Finish(fc, gc,
           Append(lg, Log("error", "apiFailed", ApiErrTask(req.task), "")),
           output, Reply503(req.task, env, err))

\* the handler calls the adapter of backend and suspends on its fetch
CallBackend(slot, fc, gc, lg, backend, nextPc) ==
    /\ fetchCall' = [fc EXCEPT ![slot] = StartFetch(DefaultMaxRetries)]
    /\ hist' = [hist EXCEPT ![slot] = NoHist]
    /\ genCalls' = Append(gc, GenCall(req.task, backend, "main", slot))
    /\ log' = lg
    /\ pc' = nextPc
    /\ UNCHANGED <<env, req, output, items, titles, response,
                 gateVars, parseVars, extractVars, storeVars, clientVars>>

\* the handler up to its first await
Enter(task, route) ==
    /\ pc = "start"
    /\ req.task = task
    /\ IF ~Valid(req)
       THEN Finish(fetchCall, genCalls,
                   Append(log, Log("warn", "invalid", task, "")),
                   output, Reply400(task))
       ELSE IF route = "none"
       THEN Unavailable(fetchCall, genCalls, log, Err("noProvider", 0, 0))
       ELSE CallBackend(1, fetchCall, genCalls,
                        Append(log, Log("info", "routing", task, route)),
                        route, "awaitMain")

PostInspire == Enter("inspire", InspireRoute(env))

PostSynthesize == Enter("synthesize", SynthesizeRoute(env))

PostCritique == Enter("critique", CritiqueRoute(env))

PostRefineTitle == Enter("refine-title", RefineTitleRoute(env))

Min(a, b) == IF a < b THEN a ELSE b

\* critiquePoints.length > 0 ? critiquePoints : [output.slice(0, 100) + '...']
FinalPoints(n) == IF Min(n, CritiqueLimit) > 0 THEN Min(n, CritiqueLimit) ELSE 1

\* the lengths of the items of a parsed list of n items: every item fits the
\* title limit, or one of them is a character longer
ItemLengths(n) ==
    {[i \in 1..n |-> IF i = k THEN TitleLimit + 1 ELSE TitleLimit] : k \in 0..n}

\* an entry of `items`: the text of the index-th parsed item, len characters
\* on one line (parseNumberedList joins the lines of an item with spaces)
Item(index, len) == [index |-> index, len |-> len]

NoTitle == [state |-> "pending", item |-> 0, len |-> 0, seq |-> 0]

\* variant: the catch block only logs the error
InternalErrorUnanswered(fc, gc, lg, text) ==
    Finish(fc, gc, Append(lg, Log("error", "internal", req.task, "")), text,
           NoReply)

\* the catch blocks at the end of each handler
InternalError(fc, gc, lg, text) ==
    Finish(fc, gc, Append(lg, Log("error", "internal", req.task, "")), text,
           Reply(500, "INTERNAL_ERROR", {"error", "code"}, NoError, NoOutput, 0))

\* output is a value (txt || '').split, output.slice or .trim throws on
Faults(task, text) ==
    CASE task \in {"inspire", "critique"} -> text.kind \in {"null", "nonString"}
      [] task = "refine-title" -> text.kind = "nonString"
      [] OTHER -> FALSE

\* the code of a handler after its routing try block, with output = text
Continue(fc, gc, lg, text) ==
    CASE Faults(req.task, text) -> InternalError(fc, gc, lg, text)
      [] ~Faults(req.task, text) /\ req.task = "inspire" ->
           IF text.items = 0
           THEN Finish(fc, gc, Append(lg, Log("warn", "parseFailed", "", "")),
                       text,
                       Reply(502, "PARSE_ERROR", {"error", "code"}, NoError,
                             NoOutput, 0))
           ELSE /\ fetchCall' = fc
                /\ output' = text
                /\ \E lens \in ItemLengths(text.items) :
                      items' = [i \in 1..text.items |-> Item(i, lens[i])]
                /\ titles' = [i \in 1..text.items |-> NoTitle]
                /\ genCalls' = gc \o [i \in 1..text.items |->
                        GenCall("inspire", generateShortTitle(env), "title", 0)]
                /\ log' = lg
                /\ pc' = "awaitTitles"
                /\ UNCHANGED <<hist, env, req, response,
                 gateVars, parseVars, extractVars, storeVars, clientVars>>
      [] ~Faults(req.task, text) /\ req.task = "synthesize" ->
           Finish(fc, gc, Append(lg, Log("info", "success", "synthesize", "")),
                  text,
                  Reply(200, "", {"id", "synthesized"}, NoError, text, 1))
      [] ~Faults(req.task, text) /\ req.task = "critique" ->
           Finish(fc, gc, Append(lg, Log("info", "success", "critique", "")),
                  text,
                  Reply(200, "", {"id", "critique"}, NoError, text,
                        FinalPoints(text.items)))
      [] OTHER ->
           Finish(fc, gc, Append(lg, Log("info", "success", "refine-title", "")),
                  text,
                  Reply(200, "", {"id", "title"}, NoError, text, 1))

\* variant: the handler resumes while the call waits between two attempts
SettledOrDelaying(c) == fetchCall[c].state \in {"returned", "threw", "delaying"}

\* the promise of exponentialBackoffFetch call c is settled
Settled(c) == fetchCall[c].state \in {"returned", "threw"}

SetResult(gc, i, r) ==
    [gc EXCEPT ![i].result = IF r.threw THEN "threw" ELSE "returned"]

\* the first backend's call settles: the handler resumes after its await
MainSettles ==
    /\ pc = "awaitMain"
    /\ Settled(1)
    /\ LET backend == genCalls[1].backend
           r == Adapter(backend, fetchCall[1])
           fc == [fetchCall EXCEPT ![1] = IdleCall]
           gc == SetResult(genCalls, 1, r)
       IN  IF ~r.threw THEN Continue(fc, gc, log, r.text)
           ELSE IF ~HasInnerTry(req.task, backend)
           THEN Unavailable(fc, gc, log, r.err)
           ELSE IF GeminiFallback(env) = "none"
           THEN Unavailable(fc, gc,
                            Append(log, Log("warn", "geminiFailed", "", "gemini")),
                            r.err)
           ELSE CallBackend(2, fc, gc,
                    Append(Append(log, Log("warn", "geminiFailed", "", "gemini")),
                           Log("info", "fallback", req.task, GeminiFallback(env))),
                    GeminiFallback(env), "awaitFallback")

\* the call made in catch (geminiErr) settles
FallbackSettles ==
    /\ pc = "awaitFallback"
    /\ Settled(2)
    /\ LET backend == genCalls[2].backend
           r == Adapter(backend, fetchCall[2])
           fc == [fetchCall EXCEPT ![2] = IdleCall]
           gc == SetResult(genCalls, 2, r)
       IN  IF r.threw THEN Unavailable(fc, gc, log, r.err)
           ELSE Continue(fc, gc, log, r.text)

\* the ways an exponentialBackoffFetch call with the default maxRetries ends
SettledCalls ==
    {[StartFetch(DefaultMaxRetries) EXCEPT !.state = "returned", !.res = res] :
        res \in Responses}
    \cup {[StartFetch(DefaultMaxRetries) EXCEPT
              !.state = "threw", !.attempt = DefaultMaxRetries + 1,
              !.fetches = DefaultMaxRetries + 1,
              !.err = Err("fetch", DefaultMaxRetries + 1, 0)]}

\* variant: the .catch handler returns the first line whole
FallbackTitleWhole(it) == it.len

\* (it.split('\n')[0] || '').slice(0, 80): the length of the fallback title
FallbackTitle(it) == Min(it.len, TitleLimit)

\* (await callX(...)).trim().split('\n')[0]...: the length class of the
\* title read from a backend text, 0 for a blank text and 1 otherwise
ShortTitle(text) == Min(text.items, 1)

\* .trim() of a value that is not a string throws inside generateShortTitle
TitleThrows(r) == r.threw \/ r.text.kind \in {"null", "nonString"}

\* the title promise of item i settles: generateShortTitle(it) returned, or
\* it threw and the .catch handler substituted the first line of the item
TitleSettles(i) ==
    /\ pc = "awaitTitles"
    /\ i \in 1..Len(items)
    /\ titles[i].state = "pending"
    /\ \E fc \in SettledCalls :
          LET r == Adapter(generateShortTitle(env), fc)
              k == Len(genCalls) - Len(items) + i
              n == Cardinality({j \in 1..Len(titles) :
                                   titles[j].state # "pending"})
          IN  /\ titles' = [titles EXCEPT
                    ![i] = IF TitleThrows(r)
                           THEN [state |-> "fallback", item |-> i,
                                 len |-> FallbackTitle(items[i]), seq |-> n + 1]
                           ELSE [state |-> "generated", item |-> i,
                                 len |-> ShortTitle(r.text), seq |-> n + 1]]
              /\ genCalls' = SetResult(genCalls, k, r)
              /\ log' = IF TitleThrows(r)
                        THEN Append(log, Log("error", "titleFailed", "", ""))
                        ELSE log
    /\ UNCHANGED <<fetchCall, hist, env, req, pc, output, items, response,
                 gateVars, parseVars, extractVars, storeVars, clientVars>>

Idea(it, title) == [text |-> it, title |-> title]

\* variant: the i-th idea takes the title that settled i-th
JoinByCompletion(its, ts) ==
    [i \in 1..Len(its) |->
        Idea(its[i], LET j == CHOOSE j \in 1..Len(ts) : ts[j].seq = i
                     IN  [item |-> ts[j].item, len |-> ts[j].len])]

\* items.map((it, idx) => ({ id, text: it, title: titles[idx] || '' }))
JoinTitles(its, ts) ==
    [i \in 1..Len(its) |->
        Idea(its[i], [item |-> ts[i].item, len |-> ts[i].len])]

\* Promise.all resolves: ideas are built by index and the response is sent
PromiseAllResolves ==
    /\ pc = "awaitTitles"
    /\ \A i \in 1..Len(items) : titles[i].state # "pending"
    /\ Finish(fetchCall, genCalls,
              Append(log, Log("info", "success", "inspire", "")),
              output,
              [Reply(200, "", {"id", "raw", "ideas"}, NoError, output,
                     Len(items))
                  EXCEPT !.ideas = JoinTitles(items, titles)])

(***************************************************************************)
(* Specification of one task request.                                      *)
(***************************************************************************)
\* largest concepts array of a synthesize request
MaxConcepts == 4

PreferredProviders == {"", "ollama", "openai", "huggingface", "gemini"}

Envs ==
    [OLLAMA_URL : BOOLEAN, GEMINI_API_KEY : BOOLEAN, OPENAI_API_KEY : BOOLEAN,
     HUGGINGFACE_API_KEY : BOOLEAN, PREFERRED_PROVIDER : PreferredProviders,
     production : BOOLEAN]

\* concepts = -1: the body has no concepts array
Requests ==
    {[task |-> t, content |-> c, concepts |-> 0] :
        t \in Tasks \ {"synthesize"}, c \in BOOLEAN}
    \cup {[task |-> "synthesize", content |-> FALSE, concepts |-> n] :
            n \in (-1)..MaxConcepts}

Init ==
    /\ fetchCall = [c \in Calls |-> IdleCall]
    /\ hist = [c \in Calls |-> NoHist]
    /\ env \in Envs
    /\ req \in Requests
    /\ pc = "start"
    /\ genCalls = <<>>
    /\ output = NoOutput
    /\ items = <<>>
    /\ titles = <<>>
    /\ log = <<>>
    /\ response = NoReply
    /\ NoTraffic
    /\ NoParse
    /\ NoExtract
    /\ NoStore
    /\ NoClient

Next ==
    \/ PostInspire
    \/ PostSynthesize
    \/ PostCritique
    \/ PostRefineTitle
    \/ Transport
    \/ MainSettles
    \/ FallbackSettles
    \/ \E i \in 1..MaxItems : TitleSettles(i)
    \/ PromiseAllResolves

Spec == Init /\ [][Next]_vars

\* every fetch promise settles, every timer fires and every continuation of
\* a settled promise runs
Fair == WF_vars(Next)

SpecFair == Init /\ [][Next]_vars /\ Fair

(***************************************************************************)
(* Specification of one adapter call: the code of an adapter after its     *)
(* await of exponentialBackoffFetch, applied to every way the fetch ends.  *)
(***************************************************************************)
Backends == {"ollama", "gemini", "openai", "huggingface"}

InitAdapter ==
    /\ fetchCall \in {[c \in Calls |-> IF c = 1 THEN fc ELSE IdleCall] :
                         fc \in SettledCalls}
    /\ hist = [c \in Calls |-> NoHist]
    /\ env = NoEnv
    /\ req = NoRequest
    /\ pc = "adapter"
    /\ genCalls \in {<<GenCall("none", b, "main", 1)>> : b \in Backends}
    /\ output = NoOutput
    /\ items = <<>>
    /\ titles = <<>>
    /\ log = <<>>
    /\ response = NoReply
    /\ NoTraffic
    /\ NoParse
    /\ NoExtract
    /\ NoStore
    /\ NoClient

\* the adapter resumes with the settled fetch and returns or throws
ApplyAdapter ==
    /\ pc = "adapter"
    /\ LET r == Adapter(genCalls[1].backend, fetchCall[1])
       IN  /\ genCalls' = SetResult(genCalls, 1, r)
           /\ output' = IF r.threw THEN NoOutput ELSE r.text
    /\ pc' = "adapted"
    /\ UNCHANGED <<fetchCall, hist, env, req, items, titles, log, response,
                 gateVars, parseVars, extractVars, storeVars, clientVars>>

NextAdapter == ApplyAdapter

SpecAdapter == InitAdapter /\ [][NextAdapter]_vars

(***************************************************************************)
(* Specification of the AI rate limiter: the requests one IP sends to the  *)
(* task endpoints within one window of aiLimiter.                          *)
(***************************************************************************)
\* app.use('/api/inspire', aiLimiter), ... : the endpoints aiLimiter is
\* mounted on
Limited == {"inspire", "synthesize", "refine-title"}

InitGate ==
    /\ fetchCall = [c \in Calls |-> IdleCall]
    /\ hist = [c \in Calls |-> NoHist]
    /\ env = NoEnv
    /\ req = NoRequest
    /\ pc = "none"
    /\ genCalls = <<>>
    /\ output = NoOutput
    /\ items = <<>>
    /\ titles = <<>>
    /\ log = <<>>
    /\ response = NoReply
    /\ NoTraffic
    /\ NoParse
    /\ NoExtract
    /\ NoStore
    /\ NoClient

\* the requests of the IP that reached a handler of the endpoints in S in the
\* current window
Reached(S) ==
    LET RECURSIVE Sum(_)
        Sum(T) == IF T = {} THEN 0
                  ELSE LET t == CHOOSE t \in T : TRUE
                       IN  handled[t] + Sum(T \ {t})
    IN  Sum(S)

\* the requests the IP sent in the current window: aiLimiter counts every
\* request to an endpoint it is mounted on, and the others all reach
\* their handler
Arrivals == aiLimiter + Reached(Tasks \ Limited)

\* a request to the endpoint of task arrives: the limiter, where mounted,
\* counts it and answers 429 itself once the count exceeds max; otherwise
\* the request reaches the handler
Arrive(task) ==
    /\ Arrivals < MaxArrivals
    /\ IF task \in Limited
       THEN /\ aiLimiter' = aiLimiter + 1
            /\ handled' = IF aiLimiter + 1 > AiMax THEN handled
                          ELSE [handled EXCEPT ![task] = @ + 1]
       ELSE /\ aiLimiter' = aiLimiter
            /\ handled' = [handled EXCEPT ![task] = @ + 1]
    /\ UNCHANGED <<fetchCall, hist, orchVars, parseVars, extractVars, storeVars, clientVars>>

\* windowMs elapsed: the limiter starts a new window for the IP
WindowElapses ==
    /\ Arrivals > 0
    /\ aiLimiter' = 0
    /\ handled' = [t \in Tasks |-> 0]
    /\ UNCHANGED <<fetchCall, hist, orchVars, parseVars, extractVars, storeVars, clientVars>>

NextGate ==
    \/ \E task \in Tasks : Arrive(task)
    \/ WindowElapses

SpecGate == InitGate /\ [][NextGate]_vars

(***************************************************************************)
(* parseNumberedList.  A text is a sequence of lines.  A line is its       *)
(* numbering prefix, if any ("<digits>." and the whitespace after it), and *)
(* its tokens, which single spaces separate: "word" is a plain word,       *)
(* "sentence" a word ending with a period, "clause" a word ending with a   *)
(* semicolon, "bullet" the character U+2022.  A line without prefix and    *)
(* without tokens is blank.  A parsed item is the sequence of the tokens   *)
(* it is made of, each named by its line and position, joined by spaces.   *)
(***************************************************************************)
Kinds == {"word", "sentence", "clause", "bullet"}

\* the text whose line i has the numbering prefix iff nums[i] and the next
\* shape[i] tokens of ks
TextOf(shape, nums, ks) ==
    LET RECURSIVE Before(_)
        Before(i) == IF i <= 1 THEN 0 ELSE shape[i - 1] + Before(i - 1)
    IN  [i \in 1..Len(shape) |->
            [num |-> nums[i],
             toks |-> SubSeq(ks, Before(i) + 1, Before(i) + shape[i])]]

\* the number of tokens of the lines of a text of that shape
Tokens(shape) ==
    LET RECURSIVE Sum(_)
        Sum(i) == IF i = 0 THEN 0 ELSE shape[i] + Sum(i - 1)
    IN  Sum(Len(shape))

Tok(i, j, kind) == [line |-> i, pos |-> j, kind |-> kind]

\* the text of line i after its numbering prefix, trimmed: m[1], or the
\* whole trimmed line when the line has no prefix
Content(t, i) == [j \in 1..Len(t[i].toks) |-> Tok(i, j, t[i].toks[j])]

Blank(l) == ~l.num /\ l.toks = <<>>

\* variant: an item is pushed only while the list is empty
FlushFirstOnly(its, current) ==
    IF current # <<>> /\ its = <<>> THEN Append(its, current) ELSE its

\* if (current) items.push(current.trim())
Flush(its, current) ==
    IF current # <<>> THEN Append(its, current) ELSE its

\* variant: a line without prefix replaces the item being accumulated
ContinueItemOverwrites(current, l) == l

\* current = (current + ' ' + l.trim()).trim()
ContinueItem(current, l) == current \o l

\* the server's parseNumberedList(txt)
parseNumberedList(t) ==
    LET RECURSIVE Loop(_, _, _)
        Loop(i, its, current) ==
            IF i > Len(t) THEN Flush(its, current)
            ELSE IF t[i].num
                 THEN Loop(i + 1, Flush(its, current), Content(t, i))
            ELSE IF Blank(t[i]) THEN Loop(i + 1, its, current)
            ELSE Loop(i + 1, its, ContinueItem(current, Content(t, i)))
    IN  Loop(1, <<>>, <<>>)

\* variant: a captured text is pushed only when it is not empty
PushLineNonEmpty(its, l) == IF l = <<>> THEN its ELSE Append(its, l)

\* if (m) items.push(m[1]); else items.push(line);
PushLine(its, l) == Append(its, l)

\* raw.split(/\r?\n/).map(l => l.trim()).filter(Boolean) and the loop over it
LinePass(t) ==
    LET RECURSIVE Loop(_, _)
        Loop(i, its) ==
            IF i > Len(t) THEN its
            ELSE IF Blank(t[i]) THEN Loop(i + 1, its)
            ELSE Loop(i + 1, PushLine(its, Content(t, i)))
    IN  Loop(1, <<>>)

\* the tokens of raw in order, numbering prefixes included
Raw(t) ==
    LET RECURSIVE Cat(_)
        Cat(i) ==
            IF i > Len(t) THEN <<>>
            ELSE (IF t[i].num THEN <<Tok(i, 0, "number")>> ELSE <<>>)
                 \o Content(t, i) \o Cat(i + 1)
    IN  Cat(1)

\* raw.split(/(?<=\.)\s+|;\s+|\s+\u2022\s+/).map(s => s.trim()).filter(Boolean):
\* the whitespace after a period separates, a semicolon with the whitespace
\* after it separates and is removed, a bullet with whitespace on both sides
\* separates and is removed; glued tells that the whitespace before the
\* next token is already part of a separator
SplitRaw(r) ==
    LET RECURSIVE Loop(_, _, _, _)
        Loop(k, pieces, current, glued) ==
            IF k > Len(r) THEN Flush(pieces, current)
            ELSE IF k < Len(r) /\ r[k].kind \in {"sentence", "number"}
                 THEN Loop(k + 1, Append(pieces, Append(current, r[k])), <<>>, TRUE)
            ELSE IF k < Len(r) /\ r[k].kind = "clause"
                 THEN Loop(k + 1,
                           Append(pieces, Append(current, [r[k] EXCEPT !.kind = "word"])),
                           <<>>, TRUE)
            ELSE IF k < Len(r) /\ k > 1 /\ ~glued /\ r[k].kind = "bullet"
                 THEN Loop(k + 1, Flush(pieces, current), <<>>, TRUE)
            ELSE Loop(k + 1, pieces, Append(current, r[k]), FALSE)
    IN  Loop(1, <<>>, <<>>, FALSE)

\* variant: the text is split again only when the line pass found nothing
NeedsSplitWhenEmpty(its) == Len(its) = 0

\* if (items.length <= 1)
NeedsSplit(its) == Len(its) <= 1

\* items.slice(0, 3)
Slice(its) == SubSeq(its, 1, Min(Len(its), ClientLimit))

\* the client's parseNumberedList(text)
parseNumberedListClient(t) ==
    LET its == LinePass(t)
    IN  Slice(IF NeedsSplit(its) THEN SplitRaw(Raw(t)) ELSE its)

InitParse ==
    /\ fetchCall = [c \in Calls |-> IdleCall]
    /\ hist = [c \in Calls |-> NoHist]
    /\ env = NoEnv
    /\ req = NoRequest
    /\ pc = "none"
    /\ genCalls = <<>>
    /\ output = NoOutput
    /\ items = <<>>
    /\ titles = <<>>
    /\ log = <<>>
    /\ response = NoReply
    /\ NoTraffic
    /\ NoExtract
    /\ NoStore
    /\ NoClient
    /\ \E nl \in 0..MaxLines :
          \E shape \in [1..nl -> 0..MaxTokens] :
             /\ Tokens(shape) <= MaxTokens
             /\ \E nums \in [1..nl -> BOOLEAN] :
                   \E ks \in [1..Tokens(shape) -> Kinds] :
                      txt = TextOf(shape, nums, ks)
    /\ parsed = [by |-> "none", items |-> <<>>]

\* the server parses txt
ParseServer ==
    /\ parsed.by = "none"
    /\ parsed' = [by |-> "server", items |-> parseNumberedList(txt)]
    /\ UNCHANGED <<fetchCall, hist, orchVars, gateVars, txt, extractVars, storeVars, clientVars>>

\* the client parses txt
ParseClient ==
    /\ parsed.by = "none"
    /\ parsed' = [by |-> "client", items |-> parseNumberedListClient(txt)]
    /\ UNCHANGED <<fetchCall, hist, orchVars, gateVars, txt, extractVars, storeVars, clientVars>>

NextParse == ParseServer \/ ParseClient

SpecParse == InitParse /\ [][NextParse]_vars

(***************************************************************************)
(* The critique points /api/critique builds from the backend text.         *)
(***************************************************************************)
\* parseNumberedList(output).slice(0, 3)
critiquePoints(t) ==
    LET its == parseNumberedList(t)
    IN  SubSeq(its, 1, Min(Len(its), CritiqueLimit))

\* output.slice(0, 100) + '...': the head of the raw text, which is the whole
\* text for the short texts drawn here, followed by the ellipsis
RawHead(t) == Append(Raw(t), Tok(0, 0, "ellipsis"))

\* variant: an empty list of points is sent as it is
finalPointsNoFallback(t) == critiquePoints(t)

\* critiquePoints.length > 0 ? critiquePoints : [output.slice(0, 100) + '...']
finalPoints(t) ==
    IF Len(critiquePoints(t)) > 0 THEN critiquePoints(t) ELSE <<RawHead(t)>>

\* /api/critique builds the points of its response from output = txt
BuildCritique ==
    /\ parsed.by = "none"
    /\ parsed' = [by |-> "critique", items |-> finalPoints(txt)]
    /\ UNCHANGED <<fetchCall, hist, orchVars, gateVars, txt, extractVars, storeVars, clientVars>>

NextCritique == BuildCritique

SpecCritique == InitParse /\ [][NextCritique]_vars

(***************************************************************************)
(* The text extraction of callGemini.  A body is described by what it      *)
(* holds at each of the four places the code reads:                        *)
(*   A  candidates[0].content.parts[0].text                                *)
(*   B  candidates[0].content[0].parts[0].text                             *)
(*   C  output[0].content[0].text                                          *)
(*   D  candidates[0].text                                                 *)
(* "absent": the container of the text (content.parts, content[0].parts,   *)
(* output[0].content[0], candidates[0]) is missing; "empty": the container *)
(* is there and holds no text or the empty string; "text": it holds a      *)
(* non-empty text.                                                         *)
(***************************************************************************)
Shapes == <<"A", "B", "C", "D">>

Fill == {"absent", "empty", "text"}

\* a body JSON.parse rejects has none of the places
Payloads ==
    [json : {TRUE}, A : Fill, B : Fill, C : Fill, D : Fill]
      \cup {[json |-> FALSE, A |-> "absent", B |-> "absent", C |-> "absent",
             D |-> "absent"]}

\* variant: an output[0].content[0] without text lets the cascade go on
OutputBranchFallsThrough(p) ==
    IF p.C = "text" THEN "C"
    ELSE IF p.D = "text" THEN "D" ELSE "serialized"

\* return json.output[0].content[0].text || JSON.stringify(json)
OutputBranch(p) == IF p.C = "text" THEN "C" ELSE "serialized"

\* the try block of callGemini after JSON.parse: the place whose text is
\* returned, or "serialized" for JSON.stringify(json)
ExtractJson(p) ==
    LET \* content.parts || (content[0] && content[0].parts) || []
        parts == IF p.A # "absent" THEN "A"
                 ELSE IF p.B # "absent" THEN "B" ELSE "none"
    IN  IF parts # "none" /\ p[parts] = "text" THEN parts
        ELSE IF p.C # "absent" THEN OutputBranch(p)
        ELSE IF p.D = "text" THEN "D"
        ELSE "serialized"

\* catch (err) { return text }
Extract(p) == IF p.json THEN ExtractJson(p) ELSE "rawText"

InitExtract ==
    /\ fetchCall = [c \in Calls |-> IdleCall]
    /\ hist = [c \in Calls |-> NoHist]
    /\ env = NoEnv
    /\ req = NoRequest
    /\ pc = "none"
    /\ genCalls = <<>>
    /\ output = NoOutput
    /\ items = <<>>
    /\ titles = <<>>
    /\ log = <<>>
    /\ response = NoReply
    /\ NoTraffic
    /\ NoParse
    /\ NoStore
    /\ NoClient
    /\ payload \in Payloads
    /\ extracted = "none"

\* callGemini reads the body and returns
ExtractText ==
    /\ extracted = "none"
    /\ extracted' = Extract(payload)
    /\ UNCHANGED <<fetchCall, hist, orchVars, gateVars, parseVars, payload, storeVars, clientVars>>

NextExtract == ExtractText

SpecExtract == InitExtract /\ [][NextExtract]_vars

(***************************************************************************)
(* Project persistence: POST /api/projects, GET and DELETE                 *)
(* /api/projects/:id on the projects table.                                *)
(***************************************************************************)
\* INSERT OR REPLACE INTO projects (.., createdAt, updatedAt) with (.., now, now)
SavedRow(row, now) == [stored |-> TRUE, createdAt |-> now, updatedAt |-> now]

InitStore ==
    /\ fetchCall = [c \in Calls |-> IdleCall]
    /\ hist = [c \in Calls |-> NoHist]
    /\ env = NoEnv
    /\ req = NoRequest
    /\ pc = "none"
    /\ genCalls = <<>>
    /\ output = NoOutput
    /\ items = <<>>
    /\ titles = <<>>
    /\ log = <<>>
    /\ response = NoReply
    /\ NoTraffic
    /\ NoParse
    /\ NoExtract
    /\ NoStore
    /\ NoClient

\* time passes
Tick ==
    /\ clock < MaxClock
    /\ clock' = clock + 1
    /\ UNCHANGED <<fetchCall, hist, orchVars, gateVars, parseVars, extractVars,
                   projects, firstSaved, dbReply, clientVars>>

\* POST /api/projects with id, name and ideaTree
SaveProject(id) ==
    /\ projects' = [projects EXCEPT ![id] = SavedRow(@, clock)]
    /\ firstSaved' = [firstSaved EXCEPT
                         ![id] = IF projects[id].stored THEN @ ELSE clock]
    /\ dbReply' = 200
    /\ UNCHANGED <<fetchCall, hist, orchVars, gateVars, parseVars, extractVars,
                   clock, clientVars>>

\* POST /api/projects without id, name or ideaTree
SaveInvalid ==
    /\ dbReply' = 400
    /\ UNCHANGED <<fetchCall, hist, orchVars, gateVars, parseVars, extractVars,
                   projects, clock, firstSaved, clientVars>>

\* GET /api/projects/:id
LoadProject(id) ==
    /\ dbReply' = IF projects[id].stored THEN 200 ELSE 404
    /\ UNCHANGED <<fetchCall, hist, orchVars, gateVars, parseVars, extractVars,
                   projects, clock, firstSaved, clientVars>>

\* DELETE /api/projects/:id
DeleteProject(id) ==
    /\ projects' = [projects EXCEPT ![id] = NoRow]
    /\ firstSaved' = [firstSaved EXCEPT ![id] = 0]
    /\ dbReply' = IF projects[id].stored THEN 200 ELSE 404
    /\ UNCHANGED <<fetchCall, hist, orchVars, gateVars, parseVars, extractVars,
                   clock, clientVars>>

NextStore ==
    \/ Tick
    \/ \E id \in ProjectIds : SaveProject(id)
    \/ SaveInvalid
    \/ \E id \in ProjectIds : LoadProject(id)
    \/ \E id \in ProjectIds : DeleteProject(id)

SpecStore == InitStore /\ [][NextStore]_vars

(***************************************************************************)
(* The browser client: ideaTree, the vis datasets, selectionSet and the    *)
(* click handlers.  A node is [id, parentId, title, content]; parentId 0   *)
(* is null.  A title or content is "given" when it is the text the node    *)
(* was made from, "refined" the title of a refine response, "input" the    *)
(* refine textarea, "placeholder" the text a handler puts for a missing    *)
(* field.                                                                  *)
(***************************************************************************)
\* const rootId = crypto.randomUUID() at page load; never assigned again
rootId == 1

Node(id, parentId, title, content) ==
    [id |-> id, parentId |-> parentId, title |-> title, content |-> content]

\* makeNode({id: rootId, title: 'Starter Idea', ..., parentId: null})
StarterNode(id) == Node(id, 0, "given", "given")

\* the ideaTree array of a project the server holds or a file carries: a
\* new project as it was saved; its id was handed out in an earlier session
StoredTrees == {{StarterNode(101)}}

Ids(tree) == {n.id : n \in tree}

\* rebuildEdges(): one edge per node with a truthy parentId
EdgesOf(tree) ==
    {[from |-> n.parentId, to |-> n.id] : n \in {m \in tree : m.parentId # 0}}

NoDialog == [text |-> "none", ok |-> FALSE]

Alert(text) == [text |-> text, ok |-> TRUE]

\* the alerts told apart are 'Cannot delete the root node.' and the confirm
\* of a delete; every other alert or confirm is "other"
Other == "other"

Confirm(text, answer) == [text |-> text, ok |-> answer]

\* ideaTree.find(n => n.id === id) found a node
Found(id) == id \in Ids(ideaTree)

\* addNodeToTree(node), and the same three statements inlined in the
\* inspire handler
addNodeToTree(g, node) ==
    [tree |-> g.tree \cup {node},
     nodes |-> g.nodes \cup {node.id},
     edges |-> IF node.parentId # 0
               THEN g.edges \cup {[from |-> node.parentId, to |-> node.id]}
               ELSE g.edges]

Graph == [tree |-> ideaTree, nodes |-> nodes, edges |-> edges]

\* adds k nodes with the ids first, first + 1, ... under parentId
AddParts(g, first, k, parentId, title, content) ==
    LET RECURSIVE Add(_, _)
        Add(h, i) ==
            IF i >= k THEN h
            ELSE Add(addNodeToTree(h, Node(first + i, parentId, title, content)),
                     i + 1)
    IN  Add(g, 0)

SetGraph(g) ==
    /\ ideaTree' = g.tree
    /\ nodes' = g.nodes
    /\ edges' = g.edges

\* variant: only the node and its children are collected
nodesToRemoveOneLevel(tree, id) ==
    {id} \cup {n.id : n \in {m \in tree : m.parentId = id}}

\* the while loop of removeNodeFromTree: id and every node whose parentId
\* is already collected
nodesToRemove(tree, id) ==
    LET RECURSIVE Collect(_)
        Collect(S) ==
            LET T == S \cup {n.id : n \in {m \in tree : m.parentId \in S}}
            IN  IF T = S THEN S ELSE Collect(T)
    IN  Collect({id})

\* removeNodeFromTree(id) on the tree and the datasets
removeNodeFromTree(g, id) ==
    LET gone == nodesToRemove(g.tree, id)
    IN  [tree |-> {n \in g.tree : n.id \notin gone},
         nodes |-> g.nodes \ gone,
         edges |-> {e \in g.edges : e.from \notin gone /\ e.to \notin gone}]

\* selectedIds.forEach(id => removeNodeFromTree(id))
RemoveAll(g, ids) ==
    LET RECURSIVE Each(_, _)
        Each(h, i) ==
            IF i > Len(ids) THEN h
            ELSE Each(removeNodeFromTree(h, ids[i]), i + 1)
    IN  Each(g, 1)

\* the ids the calls of RemoveAll collect in nodesToRemove
Doomed(g, ids) ==
    LET RECURSIVE Each(_, _, _)
        Each(h, i, acc) ==
            IF i > Len(ids) THEN acc
            ELSE Each(removeNodeFromTree(h, ids[i]), i + 1,
                      acc \cup nodesToRemove(h.tree, ids[i]))
    IN  Each(g, 1, {})

\* the handler shows d and calls removeNodeFromTree for no node
Shows(d) ==
    /\ dialog' = d
    /\ spliced' = {}

InSeq(q, x) == \E i \in 1..Len(q) : q[i] = x

Without(q, x) == SelectSeq(q, LAMBDA y : y # x)

InitClient ==
    /\ fetchCall = [c \in Calls |-> IdleCall]
    /\ hist = [c \in Calls |-> NoHist]
    /\ env = NoEnv
    /\ req = NoRequest
    /\ pc = "none"
    /\ genCalls = <<>>
    /\ output = NoOutput
    /\ items = <<>>
    /\ titles = <<>>
    /\ log = <<>>
    /\ response = NoReply
    /\ NoTraffic
    /\ NoParse
    /\ NoExtract
    /\ NoStore
    /\ ideaTree = {StarterNode(rootId)}
    /\ nodes = {rootId}
    /\ edges = {}
    /\ selectionSet = <<>>
    /\ nextId = rootId + 1
    /\ pending = {}
    /\ dialog = NoDialog
    /\ spliced = {}

ServerVars ==
    <<fetchCall, hist, orchVars, gateVars, parseVars, extractVars, storeVars>>

\* network.on('click'): toggles the clicked node of the graph
Click(id) ==
    /\ id \in nodes
    /\ IF InSeq(selectionSet, id)
       THEN selectionSet' = Without(selectionSet, id)
       ELSE /\ Len(selectionSet) < MaxSelected
            /\ selectionSet' = Append(selectionSet, id)
    /\ Shows(NoDialog)
    /\ UNCHANGED <<ServerVars, ideaTree, nodes, edges, nextId, pending>>

\* btnNewIdea click with a non-empty text
NewIdea ==
    /\ nextId <= MaxIds
    /\ LET parentId == IF Len(selectionSet) > 0 THEN selectionSet[1] ELSE rootId
       IN  SetGraph(addNodeToTree(Graph, Node(nextId, parentId, "given", "given")))
    /\ nextId' = nextId + 1
    /\ Shows(NoDialog)
    /\ UNCHANGED <<ServerVars, selectionSet, pending>>

\* a request in flight: what its handler captured before the await, and how
\* its fetch ended ("none": it has not)
Request(kind, ids) == [kind |-> kind, ids |-> ids, outcome |-> "none"]

\* setLoading(btn, true) disables the button until the response is handled
CanSend(kind) ==
    /\ \A r \in pending : r.kind # kind
    /\ Cardinality(pending) < MaxInFlight

\* the handler returns before its fetch: an alert, or nothing
Refuse(d) ==
    /\ Shows(d)
    /\ UNCHANGED <<ServerVars, ideaTree, nodes, edges, selectionSet, nextId,
                   pending>>

Send(r) ==
    /\ CanSend(r.kind)
    /\ pending' = pending \cup {r}
    /\ Shows(NoDialog)
    /\ UNCHANGED <<ServerVars, ideaTree, nodes, edges, selectionSet, nextId>>

\* btnInspire and btnCritique click
ClickOneNode(kind) ==
    IF Len(selectionSet) # 1 THEN Refuse(Alert(Other))
    ELSE IF ~Found(selectionSet[1]) THEN Refuse(NoDialog)
    ELSE Send(Request(kind, selectionSet))

InspireClick == ClickOneNode("inspire")

CritiqueClick == ClickOneNode("critique")

\* btnSynthesize click; the map over selectedIds throws before the fetch
\* when a selected id is not in ideaTree
SynthesizeClick ==
    IF Len(selectionSet) < 2 THEN Refuse(Alert(Other))
    ELSE /\ \A i \in 1..Len(selectionSet) : Found(selectionSet[i])
         /\ Send(Request("synthesize", selectionSet))

\* btnRefine click with a non-empty textarea
RefineClick == Send(Request("refine", <<>>))

\* what a response is: "ok" carries the field the handler reads, "error" is
\* a JSON error document without it, "reject" is a fetch or resp.json()
\* that throws
Outcomes == {"ok", "error", "reject"}

\* the fetch of request r ends
Respond(r, outcome) ==
    /\ r.outcome = "none"
    /\ pending' = (pending \ {r}) \cup {[r EXCEPT !.outcome = outcome]}
    /\ UNCHANGED <<ServerVars, ideaTree, nodes, edges, selectionSet, nextId,
                   dialog, spliced>>

\* the catch block: alert(kind + ' failed: ...')
Failed(r) ==
    /\ Shows(Alert(Other))
    /\ pending' = pending \ {r}
    /\ UNCHANGED <<ServerVars, ideaTree, nodes, edges, selectionSet, nextId>>

\* the handler adds k nodes built by AddParts and returns
Added(r, g, k) ==
    /\ SetGraph(g)
    /\ nextId' = nextId + k
    /\ pending' = pending \ {r}
    /\ Shows(NoDialog)
    /\ UNCHANGED <<ServerVars, selectionSet>>

\* the inspire handler after its await: parseNumberedList((json.raw || '')
\* .trim()) has k parts, none for an error document
InspireResponse(r, k) ==
    /\ r.kind = "inspire"
    /\ r.outcome # "none"
    /\ r.outcome = "ok" <=> k > 0
    /\ nextId + k - 1 <= MaxIds
    /\ IF r.outcome = "reject" THEN Failed(r)
       ELSE Added(r, AddParts(Graph, nextId, k, r.ids[1], "given", "given"), k)

\* the critique handler after its await: json.critique || [] has k points
CritiqueResponse(r, k) ==
    /\ r.kind = "critique"
    /\ r.outcome # "none"
    /\ r.outcome = "ok" <=> k > 0
    /\ nextId + k - 1 <= MaxIds
    /\ IF r.outcome = "reject" THEN Failed(r)
       ELSE Added(r, AddParts(Graph, nextId, k, r.ids[1], "given", "given"), k)

\* json.synthesized || 'Synthesized idea failed'
SynthesizedText(outcome) == IF outcome = "ok" THEN "given" ELSE "placeholder"

\* the synthesize handler after its await: parentId = a ? a.id : selectedIds[0]
SynthesizeResponse(r) ==
    /\ r.kind = "synthesize"
    /\ r.outcome # "none"
    /\ nextId <= MaxIds
    /\ IF r.outcome = "reject" THEN Failed(r)
       ELSE Added(r, addNodeToTree(Graph,
                        Node(nextId, r.ids[1], SynthesizedText(r.outcome),
                             SynthesizedText(r.outcome))), 1)

\* json.title || 'Refined Title'
RefinedTitle(outcome) == IF outcome = "ok" THEN "refined" ELSE "placeholder"

\* the refine handler after its await: the first selected node, when it is
\* found, gets the title and the textarea text; without selection a node is
\* added under rootId
RefineResponse(r) ==
    /\ r.kind = "refine"
    /\ r.outcome # "none"
    /\ IF r.outcome = "reject" THEN Failed(r)
       ELSE IF Len(selectionSet) > 0
       THEN /\ ideaTree' = {IF n.id = selectionSet[1]
                            THEN [n EXCEPT !.title = RefinedTitle(r.outcome),
                                           !.content = "input"]
                            ELSE n : n \in ideaTree}
            /\ pending' = pending \ {r}
            /\ Shows(NoDialog)
            /\ UNCHANGED <<ServerVars, nodes, edges, selectionSet, nextId>>
       ELSE /\ nextId <= MaxIds
            /\ Added(r, addNodeToTree(Graph,
                        Node(nextId, rootId, RefinedTitle(r.outcome), "input")), 1)

\* btnDelete click; confirmed is the user's answer to the confirm dialog
Delete(confirmed) ==
    IF Len(selectionSet) = 0 THEN Refuse(Alert(Other))
    ELSE IF InSeq(selectionSet, rootId) THEN Refuse(Alert("cannotDeleteRoot"))
    ELSE IF ~confirmed THEN Refuse(Confirm("delete", FALSE))
    ELSE /\ SetGraph(RemoveAll(Graph, selectionSet))
         /\ selectionSet' = <<>>
         /\ dialog' = Confirm("delete", TRUE)
         /\ spliced' = Doomed(Graph, selectionSet)
         /\ UNCHANGED <<ServerVars, nextId, pending>>

\* the tree is replaced and the datasets are rebuilt from it
Replace(tree, d) ==
    /\ ideaTree' = tree
    /\ nodes' = Ids(tree)
    /\ edges' = EdgesOf(tree)
    /\ selectionSet' = <<>>
    /\ Shows(d)
    /\ UNCHANGED <<ServerVars, pending>>

\* newProject(); the confirm is asked when the tree has more than one node
NewProject(confirmed) ==
    IF Cardinality(ideaTree) > 1 /\ ~confirmed
    THEN Refuse(Confirm(Other, FALSE))
    ELSE /\ nextId <= MaxIds
         /\ nextId' = nextId + 1
         /\ Replace({StarterNode(nextId)}, Alert(Other))

\* loadProjectFromModal(projectId) for a project the server holds
Load(tree) ==
    /\ UNCHANGED nextId
    /\ Replace(tree, Alert(Other))

\* the import handler answered with the imported project
Import(tree) ==
    /\ UNCHANGED nextId
    /\ Replace(tree, Alert(Other))

\* the import handler answered with !resp.ok
ImportFails == Refuse(Alert(Other))

NextClient ==
    \/ \E id \in nodes : Click(id)
    \/ NewIdea
    \/ InspireClick
    \/ CritiqueClick
    \/ SynthesizeClick
    \/ RefineClick
    \/ \E r \in pending, o \in Outcomes : Respond(r, o)
    \/ \E r \in pending, k \in 0..MaxParts : InspireResponse(r, k)
    \/ \E r \in pending, k \in 0..MaxParts : CritiqueResponse(r, k)
    \/ \E r \in pending : SynthesizeResponse(r)
    \/ \E r \in pending : RefineResponse(r)
    \/ \E confirmed \in BOOLEAN : Delete(confirmed)
    \/ \E confirmed \in BOOLEAN : NewProject(confirmed)
    \/ \E tree \in StoredTrees : Load(tree)
    \/ \E tree \in StoredTrees : Import(tree)
    \/ ImportFails

SpecClient == InitClient /\ [][NextClient]_vars

(***************************************************************************)
(* The delete handler alone, started in the states the client reaches: a   *)
(* node's parentId is null or an older id, which may have left the tree;   *)
(* at most one node has parentId null and it is the oldest of the tree;    *)
(* the selection is a list of distinct nodes of the graph.                 *)
(***************************************************************************)
InitRemove ==
    /\ fetchCall = [c \in Calls |-> IdleCall]
    /\ hist = [c \in Calls |-> NoHist]
    /\ env = NoEnv
    /\ req = NoRequest
    /\ pc = "none"
    /\ genCalls = <<>>
    /\ output = NoOutput
    /\ items = <<>>
    /\ titles = <<>>
    /\ log = <<>>
    /\ response = NoReply
    /\ NoTraffic
    /\ NoParse
    /\ NoExtract
    /\ NoStore
    /\ \E S \in SUBSET (1..MaxTreeIds) :
          \E p \in [S -> 0..(MaxTreeIds - 1)] :
             /\ \A i \in S : p[i] < i
             /\ \A i \in S : p[i] = 0 => \A j \in S : i <= j
             /\ ideaTree = {Node(i, p[i], "given", "given") : i \in S}
    /\ nodes = Ids(ideaTree)
    /\ edges = EdgesOf(ideaTree)
    /\ \E n \in 0..MaxSelected :
          \E sel \in [1..n -> nodes] :
             /\ \A i, j \in 1..n : i # j => sel[i] # sel[j]
             /\ selectionSet = sel
    /\ nextId = MaxTreeIds + 1
    /\ pending = {}
    /\ dialog = NoDialog
    /\ spliced = {}

NextRemove == \E confirmed \in BOOLEAN : Delete(confirmed)

SpecRemove == InitRemove /\ [][NextRemove]_vars

(***************************************************************************)
(* Properties.                                                             *)
(***************************************************************************)
MainCalls == {i \in 1..Len(genCalls) : genCalls[i].phase = "main"}

\* the fields of a response that carry generated output
OutputFields == {"raw", "ideas", "synthesized", "critique", "title"}

\* the backend has its URL or credential in the environment
Configured(e, backend) ==
    CASE backend = "ollama" -> e.OLLAMA_URL
      [] backend = "gemini" -> e.GEMINI_API_KEY
      [] backend = "openai" -> e.OPENAI_API_KEY
      [] OTHER -> e.HUGGINGFACE_API_KEY

\* every fetch invocation of call c so far was answered with a 5xx status
All5xx(c) == hist[c].last = "5xx" /\ hist[c].all5xx

\* every fetch invocation of call c so far rejected
AllThrew(c) == hist[c].last = "threw" /\ hist[c].allThrew

\* C1 (as claimed): for inspire and refine-title with Ollama and Gemini both
\* configured, when the Ollama call threw, Gemini is the next backend called
\* for the request, and when that call returns the response is a success
\* built from Gemini's text.
C1_FallbackToCloudPrimary ==
    (/\ pc = "done"
     /\ req.task \in {"inspire", "refine-title"}
     /\ env.OLLAMA_URL /\ env.GEMINI_API_KEY
     /\ Len(genCalls) >= 1
     /\ genCalls[1].backend = "ollama"
     /\ genCalls[1].result = "threw")
    => /\ Len(genCalls) >= 2
       /\ genCalls[2].backend = "gemini"
       /\ genCalls[2].phase = "main"
       /\ genCalls[2].result = "returned" => response.text.origin = "gemini"

\* C2: a finished request that passed validation and in which every backend
\* called for the main generation threw answers 503 AI_SERVICE_ERROR with no
\* output field; a success response needs a main call that returned.
C2_Exhaustion ==
    pc = "done" =>
      /\ (Valid(req) /\ \A i \in MainCalls : genCalls[i].result = "threw")
           => /\ response.status = 503
              /\ response.code = "AI_SERVICE_ERROR"
              /\ response.fields \cap OutputFields = {}
              /\ response.text = NoOutput
      /\ response.status = 200
           => \E i \in MainCalls : genCalls[i].result = "returned"

C2_Witness ==
    /\ pc = "done"
    /\ response.status = 503
    /\ Cardinality(MainCalls) = 2
    /\ \A i \in MainCalls : genCalls[i].result = "threw"

\* C3 (as claimed): for synthesize and critique with Gemini and Ollama both
\* configured, when Gemini answered every attempt with 5xx, Ollama is called
\* as fallback and the response is not built from Gemini's body.
C3_Persistent5xxFallsBack ==
    (/\ pc = "done"
     /\ req.task \in {"synthesize", "critique"}
     /\ env.OLLAMA_URL /\ env.GEMINI_API_KEY
     /\ Len(genCalls) >= 1
     /\ genCalls[1].backend = "gemini"
     /\ All5xx(1))
    => /\ Len(genCalls) >= 2
       /\ genCalls[2].backend = "ollama"
       /\ response.text.origin # "gemini"

\* C4 (as claimed): a call whose fetch invocations all resolved with 5xx
\* ends after maxRetries + 1 invocations by throwing.
C4_RetryBoundThrows ==
    \A c \in Calls :
        (Settled(c) /\ All5xx(c))
        => /\ fetchCall[c].fetches = fetchCall[c].maxRetries + 1
           /\ fetchCall[c].state = "threw"

\* C4 (amended): a call whose fetch invocations all resolved with 5xx ends
\* after exactly maxRetries + 1 invocations by returning the last 5xx
\* response; no error is thrown.
C4_RetryBoundReturns ==
    \A c \in Calls :
        (Settled(c) /\ All5xx(c))
        => /\ fetchCall[c].fetches = fetchCall[c].maxRetries + 1
           /\ fetchCall[c].attempt = fetchCall[c].maxRetries
           /\ fetchCall[c].state = "returned"
           /\ fetchCall[c].res.status >= 500

C4_Witness ==
    \E c \in Calls :
        /\ Settled(c) /\ All5xx(c)
        /\ fetchCall[c].maxRetries >= 2
        /\ fetchCall[c].fetches = fetchCall[c].maxRetries + 1

\* C5: a call whose fetch invocations all rejected ends after exactly
\* maxRetries + 1 invocations by throwing the error of the last invocation
\* itself.
C5_LastErrorUnmodified ==
    \A c \in Calls :
        (Settled(c) /\ AllThrew(c))
        => /\ fetchCall[c].state = "threw"
           /\ fetchCall[c].fetches = fetchCall[c].maxRetries + 1
           /\ fetchCall[c].err = Err("fetch", fetchCall[c].fetches, 0)

C5_Witness ==
    \E c \in Calls :
        /\ fetchCall[c].state = "threw" /\ AllThrew(c)
        /\ fetchCall[c].maxRetries >= 2
        /\ fetchCall[c].err.inv = fetchCall[c].maxRetries + 1

\* C6: a step in which fetch resolves with a 4xx status returns that response
\* with no delay set; a returned call makes no further invocation; and the
\* invocation count grows only after a rejected fetch or a 5xx status.
C6_NoRetryOn4xx ==
    [][\A c \in Calls :
          /\ (fetchCall[c].state = "waiting" /\ fetchCall'[c] # fetchCall[c]
              /\ hist'[c].last = "4xx")
               => /\ fetchCall'[c].state = "returned"
                  /\ fetchCall'[c].res.status \in 400..499
                  /\ fetchCall'[c].fetches = fetchCall[c].fetches
                  /\ fetchCall'[c].delay = 0
          /\ (fetchCall[c].state = "returned" /\ hist[c].last = "4xx")
               => (fetchCall'[c].fetches <= fetchCall[c].fetches
                   /\ fetchCall'[c].delay = 0)
          /\ (fetchCall'[c].fetches > fetchCall[c].fetches
              /\ fetchCall[c].state # "idle")
               => hist[c].last \in {"threw", "5xx"}]_vars

C6_Witness ==
    \E c \in Calls :
        /\ fetchCall[c].state = "returned"
        /\ fetchCall[c].res.status = 429
        /\ fetchCall[c].attempt >= 1
        /\ fetchCall[c].fetches = fetchCall[c].attempt + 1

\* C7: while a call waits before retry k (k = attempt), its delay d
\* satisfies 500 * 2^(k-1) <= d < 500 * 2^(k-1) + 200.
C7_BackoffGrowth ==
    \A c \in Calls :
        fetchCall[c].state = "delaying"
        => LET k == fetchCall[c].attempt
               d == fetchCall[c].delay
           IN  /\ k \in 1..fetchCall[c].maxRetries
               /\ 500 * (2 ^ (k - 1)) <= d
               /\ d < 500 * (2 ^ (k - 1)) + 200

C7_Witness ==
    \E c \in Calls :
        /\ fetchCall[c].state = "delaying"
        /\ fetchCall[c].attempt = fetchCall[c].maxRetries
        /\ fetchCall[c].attempt >= 2
        /\ fetchCall[c].delay > 500 * (2 ^ (fetchCall[c].attempt - 1))

\* C8 (as claimed): synthesize and critique answer AI_SERVICE_ERROR only
\* after every configured backend among Gemini, Ollama and OpenAI was called
\* for the request and threw.
C8_AllConfiguredAttempted ==
    (/\ pc = "done"
     /\ req.task \in {"synthesize", "critique"}
     /\ response.code = "AI_SERVICE_ERROR")
    => \A b \in {"gemini", "ollama", "openai"} :
          Configured(env, b)
          => \E i \in MainCalls :
                genCalls[i].backend = b /\ genCalls[i].result = "threw"

\* C9 (as claimed): every adapter call made for a request, main generation
\* or title generation, goes to a backend whose URL or credential is set.
C9_NoCallToUnconfigured ==
    \A i \in 1..Len(genCalls) : Configured(env, genCalls[i].backend)

C11_PreferredFirst ==
    (env.PREFERRED_PROVIDER # "" /\ Len(genCalls) >= 1)
    => genCalls[1].backend = env.PREFERRED_PROVIDER

\* C12 (as claimed): a synthesize request with fewer than 2 or more than 3
\* concepts is answered 400 INVALID_INPUT without any backend call, and one
\* with 2 or 3 concepts is not answered 400.
C12_ConceptCount ==
    (req.task = "synthesize" /\ pc # "start")
    => IF req.concepts \in 2..3
       THEN response.status # 400
       ELSE /\ response.status = 400
            /\ response.code = "INVALID_INPUT"
            /\ genCalls = <<>>

\* C13: an inspire, critique or refine-title request without content never
\* has an adapter call or a fetch made for it, and once handled its response
\* is 400 MISSING_CONTENT.
C13_MissingContentFailsFast ==
    (req.task \in {"inspire", "critique", "refine-title"} /\ ~req.content)
    => /\ genCalls = <<>>
       /\ \A c \in Calls : fetchCall[c] = IdleCall /\ hist[c] = NoHist
       /\ pc \in {"start", "done"}
       /\ pc = "done" => /\ response.status = 400
                         /\ response.code = "MISSING_CONTENT"

C13_Witness ==
    /\ req.task = "critique"
    /\ ~req.content
    /\ env.GEMINI_API_KEY
    /\ pc = "done"
    /\ response.status = 400
    /\ genCalls = <<>>

\* the adapter call made for the title of item i
TitleCall(i) == genCalls[Len(genCalls) - Len(items) + i]

\* C14: once items were parsed, an inspire request ends with a success that
\* has one idea per item, whatever subset of the title generations threw, and
\* each item whose title generation threw has as title the first line of its
\* own text cut to TitleLimit characters, which is not empty.
C14_TitleDegradation ==
    /\ pc = "awaitTitles" => response = NoReply
    /\ (pc = "done" /\ items # <<>>)
       => /\ response.status = 200
          /\ Len(response.ideas) = Len(items)
          /\ \A i \in 1..Len(items) :
                TitleCall(i).result = "threw"
                => /\ titles[i].state = "fallback"
                   /\ response.ideas[i].title.item = i
                   /\ response.ideas[i].title.len =
                        (IF items[i].len > TitleLimit
                         THEN TitleLimit ELSE items[i].len)
                   /\ response.ideas[i].title.len > 0

C14_Witness ==
    /\ pc = "done"
    /\ Len(items) >= 2
    /\ TitleCall(1).result = "threw"
    /\ TitleCall(2).result = "returned"
    /\ items[1].len > TitleLimit
    /\ response.status = 200
    /\ response.ideas[1].title.len = TitleLimit

\* C15: the title promises settle in any order, and the response of inspire
\* has one idea per parsed item, the i-th idea holding the i-th item and the
\* title that was generated or derived for that item.
C15_JoinByIndex ==
    (pc = "done" /\ items # <<>>)
    => /\ Len(response.ideas) = Len(items)
       /\ \A i \in 1..Len(items) :
             /\ response.ideas[i].text = items[i]
             /\ response.ideas[i].text.index = i
             /\ response.ideas[i].title.item = i
             /\ response.ideas[i].title.len = titles[i].len

C15_Witness ==
    /\ pc = "done"
    /\ Len(items) >= 2
    /\ titles[1].seq > titles[2].seq
    /\ titles[1].state = "generated"
    /\ titles[2].state = "fallback"
    /\ response.status = 200

\* C16 (as claimed): when a backend returned for inspire or critique a text
\* in which the parser finds no item, an absent text included, the response is
\* 502 PARSE_ERROR and no further adapter call is made.
C16_ParseError ==
    (/\ pc = "done"
     /\ req.task \in {"inspire", "critique"}
     /\ \E i \in MainCalls : genCalls[i].result = "returned"
     /\ output.items = 0)
    => /\ response.status = 502
       /\ response.code = "PARSE_ERROR"
       /\ \A i \in 1..Len(genCalls) :
             /\ genCalls[i].phase = "main"
             /\ genCalls[i].result = "returned" => i = Len(genCalls)

ErrorCodes ==
    {"MISSING_CONTENT", "INVALID_INPUT", "AI_SERVICE_ERROR", "PARSE_ERROR",
     "INTERNAL_ERROR"}

\* the status and code an error response has for what ended the request
StatusMatchesCause ==
    /\ response.status \in {400, 502, 503, 500}
    /\ response.status = 400
       <=> IF req.task = "synthesize" THEN req.concepts < 2 ELSE ~req.content
    /\ response.status = 400
       => response.code = (IF req.task = "synthesize"
                           THEN "INVALID_INPUT" ELSE "MISSING_CONTENT")
    /\ response.status = 503
       <=> /\ response.status # 400
           /\ \A i \in MainCalls : genCalls[i].result = "threw"
    /\ response.status = 503 => response.code = "AI_SERVICE_ERROR"
    /\ response.status = 502
       => /\ response.code = "PARSE_ERROR"
          /\ output.kind \notin {"none", "null", "nonString"}
          /\ output.items = 0
    /\ response.status = 500
       => /\ response.code = "INTERNAL_ERROR"
          /\ output.kind \in {"null", "nonString"}

\* C17 (as claimed): every error response consists of the fields error and
\* code, with one of the five codes and the status of its cause.
C17_ErrorShapeExact ==
    (pc = "done" /\ response.status # 200)
    => /\ response.fields = {"error", "code"}
       /\ response.code \in ErrorCodes
       /\ StatusMatchesCause

\* C17 (amended): every error response has the fields error and code and no
\* output field, with one of the five codes and the status of its cause; the
\* 503 response of inspire, and no other, has a message field as well.
C17_ErrorShape ==
    (pc = "done" /\ response.status # 200)
    => /\ {"error", "code"} \subseteq response.fields
       /\ response.fields \cap OutputFields = {}
       /\ response.fields \ {"error", "code"} =
            (IF req.task = "inspire" /\ response.status = 503
             THEN {"message"} ELSE {})
       /\ response.code \in ErrorCodes
       /\ StatusMatchesCause

C17_Witness ==
    /\ pc = "done"
    /\ req.task = "inspire"
    /\ response.status = 503
    /\ response.fields = {"error", "code", "message"}
    /\ Len(genCalls) = 1
    /\ genCalls[1].result = "threw"

\* the body of the 503 response of a task in production mode
ProductionBody(task) ==
    [status |-> 503, code |-> "AI_SERVICE_ERROR",
     fields |-> IF task = "inspire" THEN {"error", "code", "message"}
                ELSE {"error", "code"},
     message |-> IF task = "inspire" THEN GenericMessage ELSE NoError,
     text |-> NoOutput, count |-> 0, ideas |-> <<>>]

\* C18: in production mode the 503 response of a task is one fixed body,
\* whatever error the failing backend threw.
C18_NoLeakInProduction ==
    (env.production /\ pc = "done" /\ response.status = 503)
    => response = ProductionBody(req.task)

C18_Witness ==
    /\ env.production
    /\ pc = "done"
    /\ req.task = "inspire"
    /\ response.status = 503
    /\ genCalls # <<>>
    /\ genCalls[1].backend = "ollama"
    /\ genCalls[1].result = "threw"
    /\ hist[1].last = "4xx"

\* C19: a 2xx response whose payload is JSON without the fields the adapter
\* reads, or is not JSON, makes the adapter return the serialized payload or
\* the raw response text; it does not throw.
C19_NormalizerNeverThrows ==
    (/\ pc = "adapted"
     /\ fetchCall[1].state = "returned"
     /\ ok(fetchCall[1].res.status)
     /\ fetchCall[1].res.body.shape \in {"otherJson", "errorJson", "notJson"})
    => /\ genCalls[1].result = "returned"
       /\ output.kind \in {"serialized", "raw"}
       /\ fetchCall[1].res.body.shape = "notJson" => output.kind = "raw"

C19_Witness ==
    /\ pc = "adapted"
    /\ genCalls[1].backend = "gemini"
    /\ fetchCall[1].state = "returned"
    /\ ok(fetchCall[1].res.status)
    /\ fetchCall[1].res.body.shape = "otherJson"
    /\ genCalls[1].result = "returned"
    /\ output.kind = "serialized"

\* C20 (as claimed): whenever an adapter returns, the value it returns is a
\* string.
C20_ReturnsString ==
    (pc = "adapted" /\ genCalls[1].result = "returned")
    => output.kind \in {"generated", "serialized", "raw"}

\* C21 (as claimed): callHuggingFace throws to its caller when a 2xx response
\* has a payload with an error field and no generated_text.
C21_RejectedPayloadThrows ==
    (/\ pc = "adapted"
     /\ genCalls[1].backend = "huggingface"
     /\ fetchCall[1].state = "returned"
     /\ ok(fetchCall[1].res.status)
     /\ fetchCall[1].res.body.shape = "errorJson")
    => genCalls[1].result = "threw"

\* the adapter was handed a response with a non-2xx status
HandedNon2xx ==
    /\ pc = "adapted"
    /\ fetchCall[1].state = "returned"
    /\ ~ok(fetchCall[1].res.status)

\* C22 (as claimed): handed a non-2xx response, callHuggingFace throws, and
\* callOllama, callGemini and callOpenAI return a text extracted from the body.
C22_OnlyHuggingFaceThrows ==
    HandedNon2xx
    => IF genCalls[1].backend = "huggingface"
       THEN genCalls[1].result = "threw"
       ELSE /\ genCalls[1].result = "returned"
            /\ output.status = fetchCall[1].res.status

\* C22 (amended): handed a non-2xx response, callHuggingFace and callOllama
\* throw, and callGemini and callOpenAI return a text extracted from the body.
C22_StatusAsymmetry ==
    HandedNon2xx
    => IF genCalls[1].backend \in {"huggingface", "ollama"}
       THEN genCalls[1].result = "threw" /\ output = NoOutput
       ELSE /\ genCalls[1].result = "returned"
            /\ output.origin = genCalls[1].backend
            /\ output.status = fetchCall[1].res.status
            /\ output.kind \in {"serialized", "raw"}

C22_Witness ==
    /\ HandedNon2xx
    /\ genCalls[1].backend = "ollama"
    /\ fetchCall[1].res.status = 429
    /\ genCalls[1].result = "threw"

\* the adapter calls made so far for task t to backend b
CallsTo(t, b, phases) ==
    {i \in 1..Len(genCalls) :
        /\ genCalls[i].phase \in phases
        /\ genCalls[i].task = t
        /\ genCalls[i].backend = b}

\* the log records so far that name task t and backend b
RecordsOf(t, b) ==
    {j \in 1..Len(log) : log[j].task = t /\ log[j].backend = b}

C24_AllEndpointsLimited == Reached(Tasks) <= AiMax

\* the lines of t that are not blank
NonBlank(t) == {i \in 1..Len(t) : ~Blank(t[i])}

\* the lines of t that have text after their prefix, or text and no prefix
WithContent(t) == {i \in 1..Len(t) : t[i].toks # <<>>}

\* the k-th smallest member of S
Nth(S, k) == CHOOSE i \in S : Cardinality({j \in S : j <= i}) = k

\* n >= 2 lines, each of the form '<integer>. <non-empty text>'
WellFormed(t) ==
    /\ Len(t) >= 2
    /\ \A i \in 1..Len(t) : t[i].num /\ t[i].toks # <<>>

\* C25 (as claimed): a well-formed list of n lines parses to its n captured
\* texts in source order.
C25_WellFormedListAll ==
    (parsed.by # "none" /\ WellFormed(txt))
    => /\ Len(parsed.items) = Len(txt)
       /\ \A i \in 1..Len(txt) : parsed.items[i] = Content(txt, i)

\* C25 (amended): a well-formed list of n lines parses on the server to its n
\* captured texts in source order, and on the client to the first
\* ClientLimit of them.
C25_WellFormedList ==
    (parsed.by # "none" /\ WellFormed(txt))
    => LET n == IF parsed.by = "client" /\ Len(txt) > ClientLimit
                THEN ClientLimit ELSE Len(txt)
       IN  /\ Len(parsed.items) = n
           /\ \A i \in 1..n : parsed.items[i] = Content(txt, i)

C25_Witness ==
    /\ parsed.by = "server"
    /\ WellFormed(txt)
    /\ Len(txt) = 4
    /\ Len(parsed.items) = 4
    /\ parsed.items[4] = <<Tok(4, 1, txt[4].toks[1])>>

\* the last numbered line at or before line i (0: there is none)
Owner(t, i) ==
    LET S == {j \in 1..i : t[j].num}
    IN  IF S = {} THEN 0 ELSE CHOOSE j \in S : \A k \in S : k <= j

\* the texts of lines j..i joined by spaces
Accumulated(t, j, i) ==
    LET RECURSIVE Cat(_)
        Cat(l) == IF l > i THEN <<>> ELSE Content(t, l) \o Cat(l + 1)
    IN  Cat(j)

IsPrefix(p, q) == Len(p) <= Len(q) /\ SubSeq(q, 1, Len(p)) = p

\* the non-blank lines without prefix that follow a numbered line
Continuations(t) ==
    {i \in 1..Len(t) : ~t[i].num /\ ~Blank(t[i]) /\ Owner(t, i) > 0}

\* every continuation line is joined to the text accumulated since the last
\* numbered line, blank lines between them adding nothing
ContinuationsJoined ==
    \A i \in Continuations(txt) :
        \E k \in 1..Len(parsed.items) :
            IsPrefix(Accumulated(txt, Owner(txt, i), i), parsed.items[k])

\* C26 (as claimed): a non-blank line without numbering prefix is appended
\* to the item being accumulated and starts no item; blank lines change
\* nothing.
C26_ContinuationAll == parsed.by # "none" => ContinuationsJoined

\* C26 (amended): on the server a non-blank line without numbering prefix is
\* appended to the item being accumulated and starts no item, and blank lines
\* change nothing; on the client every non-blank line of a text with two or
\* more of them is an item of its own, up to ClientLimit items.
C26_Continuation ==
    /\ parsed.by = "server"
       => /\ ContinuationsJoined
          /\ Len(parsed.items) <= Cardinality({i \in 1..Len(txt) : txt[i].num}) + 1
    /\ (parsed.by = "client" /\ Cardinality(NonBlank(txt)) >= 2)
       => /\ Len(parsed.items) =
               (IF Cardinality(NonBlank(txt)) > ClientLimit
                THEN ClientLimit ELSE Cardinality(NonBlank(txt)))
          /\ \A k \in 1..Len(parsed.items) :
                parsed.items[k] = Content(txt, Nth(NonBlank(txt), k))

C26_Witness ==
    /\ parsed.by = "server"
    /\ Len(txt) = 4
    /\ txt[1].num /\ txt[1].toks # <<>>
    /\ Blank(txt[2])
    /\ 3 \in Continuations(txt)
    /\ txt[4].num /\ txt[4].toks # <<>>
    /\ Len(parsed.items) = 2
    /\ parsed.items[1] = Content(txt, 1) \o Content(txt, 3)
    /\ parsed.items[2] = Content(txt, 4)

\* the tokens of the items, in order
Flat(its) ==
    LET RECURSIVE Cat(_)
        Cat(k) == IF k > Len(its) THEN <<>> ELSE its[k] \o Cat(k + 1)
    IN  Cat(1)

\* the place of a token in the text
Place(tok) == <<tok.line, tok.pos>>

Places(seq) == {Place(seq[k]) : k \in 1..Len(seq)}

\* no item is empty, and none has inside it a period or semicolon followed by
\* whitespace or a bullet between two tokens
SplitAtSeparators(its) ==
    \A k \in 1..Len(its) :
        /\ its[k] # <<>>
        /\ \A p \in 1..(Len(its[k]) - 1) :
              /\ its[k][p].kind \notin {"sentence", "number", "clause"}
              /\ p > 1 => its[k][p].kind # "bullet"

\* the tokens of raw that are not bullets
Words(t) == {k \in 1..Len(Raw(t)) : Raw(t)[k].kind # "bullet"}

\* the line pass finds at most one item: the text has at most one line that
\* is not blank
Prose(t) == Cardinality(NonBlank(t)) <= 1

\* C27 (as claimed): when the line pass yields at most one item, the result
\* is the pieces of the text split at periods and semicolons followed by
\* whitespace and at bullets, none empty and none left out.
C27_ResplitAll ==
    (parsed.by # "none" /\ Prose(txt))
    => /\ SplitAtSeparators(parsed.items)
       /\ \A k \in Words(txt) : Place(Raw(txt)[k]) \in Places(Flat(parsed.items))

\* C27 (amended): when the line pass yields at most one item, the client
\* returns the first ClientLimit pieces of the text split at periods and
\* semicolons followed by whitespace and at bullets between whitespace, none
\* empty; the server does not split the text again and returns its one item.
C27_Resplit ==
    /\ (parsed.by = "client" /\ Prose(txt))
       => /\ SplitAtSeparators(parsed.items)
          /\ Len(parsed.items) <= ClientLimit
          /\ \A k \in Words(txt) :
                \/ Place(Raw(txt)[k]) \in Places(Flat(parsed.items))
                \/ /\ Len(parsed.items) = ClientLimit
                   /\ \A j \in k..Len(Raw(txt)) :
                         Place(Raw(txt)[j]) \notin Places(Flat(parsed.items))
          /\ \A p, q \in 1..Len(Flat(parsed.items)) :
                p < q => Flat(parsed.items)[p].pos < Flat(parsed.items)[q].pos
    /\ (parsed.by = "server" /\ Prose(txt))
       => parsed.items = (IF WithContent(txt) = {} THEN <<>>
                          ELSE <<Content(txt, Nth(WithContent(txt), 1))>>)

C27_Witness ==
    /\ parsed.by = "client"
    /\ Len(txt) = 1
    /\ ~txt[1].num
    /\ txt[1].toks = <<"sentence", "sentence", "sentence">>
    /\ parsed.items = <<<<Tok(1, 1, "sentence")>>, <<Tok(1, 2, "sentence")>>,
                        <<Tok(1, 3, "sentence")>>>>

\* two or more lines, all numbered, one of them with nothing after its number
HasBareNumber(t) ==
    /\ Len(t) >= 2
    /\ \A i \in 1..Len(t) : t[i].num
    /\ \E i \in 1..Len(t) : t[i].toks = <<>>

\* C28 (as claimed): a numbered line without content among numbered lines
\* yields an empty item at its position, so there are as many items as
\* numbered lines.
C28_BareNumberAll ==
    (parsed.by # "none" /\ HasBareNumber(txt))
    => /\ Len(parsed.items) = Len(txt)
       /\ \A i \in 1..Len(txt) : parsed.items[i] = Content(txt, i)

\* C28 (amended): on the client a numbered line without content among
\* numbered lines yields an empty item at its position, within the first
\* ClientLimit items; on the server it yields no item, so there are as many
\* items as numbered lines with content.
C28_BareNumber ==
    /\ (parsed.by = "client" /\ HasBareNumber(txt))
       => /\ Len(parsed.items) =
               (IF Len(txt) > ClientLimit THEN ClientLimit ELSE Len(txt))
          /\ \A i \in 1..Len(parsed.items) :
                /\ parsed.items[i] = Content(txt, i)
                /\ txt[i].toks = <<>> => parsed.items[i] = <<>>
    /\ (parsed.by = "server" /\ HasBareNumber(txt))
       => /\ Len(parsed.items) = Cardinality(WithContent(txt))
          /\ \A k \in 1..Len(parsed.items) :
                /\ parsed.items[k] # <<>>
                /\ parsed.items[k] = Content(txt, Nth(WithContent(txt), k))

C28_Witness ==
    /\ parsed.by = "client"
    /\ Len(txt) = 3
    /\ HasBareNumber(txt)
    /\ txt[1].toks # <<>> /\ txt[2].toks = <<>> /\ txt[3].toks # <<>>
    /\ Len(parsed.items) = 3
    /\ parsed.items[2] = <<>>

\* the main-generation call i goes from pending to returned or threw
Resolves(i) ==
    /\ i <= Len(genCalls)
    /\ genCalls[i].phase = "main"
    /\ genCalls[i].result = "pending"
    /\ genCalls'[i].result # "pending"

\* exponentialBackoffFetch call c has returned a response, or has thrown
\* after maxRetries + 1 invocations of fetch
FullyResolved(c) ==
    \/ fetchCall[c].state = "returned"
    \/ /\ fetchCall[c].state = "threw"
       /\ fetchCall[c].fetches = fetchCall[c].maxRetries + 1
       /\ fetchCall[c].delay = 0

\* C29: the main-generation calls of a request never overlap: at most one of
\* them is pending, at most one fetch call is in flight, a call resolves
\* only when its fetch call has returned or has thrown after all its
\* retries, and the fallback call starts in the step in which the first call
\* resolves by throwing.
C29_SequentialAttempts ==
    [][/\ Cardinality({i \in 1..Len(genCalls') :
                          /\ genCalls'[i].phase = "main"
                          /\ genCalls'[i].result = "pending"}) <= 1
       /\ \E c \in Calls : fetchCall'[c] = IdleCall
       /\ \A i \in 1..2 : Resolves(i) => FullyResolved(genCalls[i].slot)
       /\ (Len(genCalls) = 1 /\ Len(genCalls') >= 2 /\ genCalls'[2].phase = "main")
          => /\ Resolves(1)
             /\ genCalls'[1].result = "threw"
             /\ fetchCall'[1] = IdleCall
             /\ fetchCall'[2] = StartFetch(DefaultMaxRetries)]_vars

C29_Witness ==
    /\ pc = "awaitFallback"
    /\ Len(genCalls) = 2
    /\ genCalls[1].result = "threw"
    /\ genCalls[2].result = "pending"
    /\ fetchCall[1] = IdleCall
    /\ fetchCall[2].state = "delaying"
    /\ fetchCall[2].attempt = 2

\* what the locals of a call running alone satisfy: attempt counts the
\* failed invocations, the delay waited after failure number attempt is
\* baseDelay * 2^(attempt - 1) plus a jitter below JitterSpan, and the call
\* throws after maxRetries + 1 failures
AsIfAlone(fc) ==
    /\ fc.attempt <= fc.maxRetries + 1
    /\ fc.fetches <= fc.maxRetries + 1
    /\ fc.state \in {"waiting", "returned"} => fc.fetches = fc.attempt + 1
    /\ fc.state = "delaying"
       => /\ fc.fetches = fc.attempt
          /\ fc.attempt \in 1..fc.maxRetries
          /\ fc.delay >= baseDelay * Pow2(fc.attempt - 1)
          /\ fc.delay < baseDelay * Pow2(fc.attempt - 1) + JitterSpan
    /\ fc.state = "threw"
       => fc.attempt = fc.maxRetries + 1 /\ fc.fetches = fc.attempt

\* C30: with two calls in flight, a step of one call changes nothing of the
\* other, and each call's attempt count and delays are those of a call
\* running alone.
C30_RetryStatePerCall ==
    [][/\ \A c \in Calls : AsIfAlone(fetchCall'[c])
       /\ \A c, d \in Calls :
             (c # d /\ fetchCall'[c] # fetchCall[c])
             => fetchCall'[d] = fetchCall[d] /\ hist'[d] = hist[d]]_vars

C30_Witness ==
    /\ fetchCall[1].state = "delaying"
    /\ fetchCall[1].attempt = 2
    /\ fetchCall[2].state = "waiting"
    /\ fetchCall[2].attempt = 0
    /\ fetchCall[2].maxRetries = 1
    /\ hist[2].last = "none"

\* the delays call c has waited or is waiting: one per caught failure that
\* was not rethrown
Delays(c) ==
    IF fetchCall[c].state = "threw" THEN fetchCall[c].attempt - 1
    ELSE fetchCall[c].attempt

\* call c has returned or thrown
Ended(c) == fetchCall[c].state \in {"returned", "threw"}

C31_Bounded ==
    /\ fetchCall[1].fetches <= fetchCall[1].maxRetries + 1
    /\ Delays(1) <= fetchCall[1].maxRetries
    /\ fetchCall[1].state = "delaying"
       => fetchCall[1].fetches <= fetchCall[1].maxRetries
    /\ Ended(1) => fetchCall[1].delay = 0
    /\ hist[1].last \in {"2xx", "4xx"} => fetchCall[1].state = "returned"

\* C31: whatever the fetch invocations do, a call with maxRetries = N ends,
\* by returning or throwing, after at most N + 1 invocations of fetch and
\* at most N delays; it waits no delay after its last invocation and invokes
\* fetch no more once a response below 500 arrived.
C31_Terminates ==
    /\ [](C31_Bounded)
    /\ <>(Ended(1))
    /\ [][Ended(1) => fetchCall'[1] = fetchCall[1]]_vars

C31_Witness ==
    /\ fetchCall[1].state = "returned"
    /\ fetchCall[1].maxRetries = MaxRetriesBound
    /\ fetchCall[1].fetches = MaxRetriesBound + 1
    /\ Delays(1) = MaxRetriesBound
    /\ hist[1].last = "4xx"
    /\ ~hist[1].all5xx
    /\ ~hist[1].allThrew

\* the statuses a task endpoint answers with
TerminalStatuses == {200, 400, 502, 503, 500}

\* the handler has sent a response
Responded == response # NoReply

\* C32: a task request whose backend calls all settle gets a response, the
\* response has one of the statuses 200, 400, 502, 503, 500 and is sent by
\* the handler's last step, and once sent it is never replaced.
C32_OneResponse ==
    /\ <>(Responded)
    /\ [](Responded <=> pc = "done")
    /\ [](Responded => response.status \in TerminalStatuses)
    /\ [][Responded => response' = response /\ pc' = pc]_vars

C32_Witness ==
    /\ Responded
    /\ req.task = "inspire"
    /\ response.status = 200
    /\ Len(items) >= 2
    /\ \E i \in 1..Len(items) : titles[i].state = "fallback"

\* the places of the body that carry a text, in the order of the cascade
WithText(p) == {i \in 1..4 : p[Shapes[i]] = "text"}

\* the first place in cascade order that carries a text
FirstText(p) == Shapes[CHOOSE i \in WithText(p) : \A j \in WithText(p) : i <= j]

\* C33 as stated: the text returned is that of the first of the four places,
\* in the order A, B, C, D, that carries a text, and the serialized body is
\* returned only when none does.
C33_OrderedCascade ==
    (extracted # "none" /\ payload.json)
    => extracted = IF WithText(payload) = {} THEN "serialized"
                   ELSE FirstText(payload)

\* C33 as the code has it: A's text when A carries one; B's text when
\* content.parts is absent and B carries one; otherwise, when
\* output[0].content[0] exists, its text or else the serialized body, D not
\* being read; otherwise D's text; otherwise the serialized body.
C33_Cascade ==
    (extracted # "none" /\ payload.json)
    => LET p == payload
           viaParts == p.A = "text" \/ (p.A = "absent" /\ p.B = "text")
       IN  /\ extracted = "A" <=> p.A = "text"
           /\ extracted = "B" <=> (p.A = "absent" /\ p.B = "text")
           /\ extracted = "C" <=> (~viaParts /\ p.C = "text")
           /\ extracted = "D" <=> (~viaParts /\ p.C = "absent" /\ p.D = "text")
           /\ extracted \in {"A", "B", "C", "D", "serialized"}

C33_Witness ==
    /\ extracted = "serialized"
    /\ payload.A = "absent"
    /\ payload.B = "absent"
    /\ payload.C = "empty"
    /\ payload.D = "text"

\* the title calls made for the items of an inspire request
TitleCalls == {i \in 1..Len(genCalls) : genCalls[i].phase = "title"}

\* C34: every title call of an inspire request goes to the backend that
\* /api/refine-title calls first under the same configuration.
C34_SameSelection ==
    \A i \in TitleCalls : genCalls[i].backend = RefineTitleRoute(env)

\* C35: the points of a successful critique response are at least one and
\* at most three: the first three items the parser finds in the backend
\* text, in their order, and when it finds none a single point made of the
\* head of the raw text.
C35_CritiquePoints ==
    parsed.by = "critique"
    => LET its == parseNumberedList(txt)
           n == Len(parsed.items)
       IN  /\ n >= 1
           /\ n <= CritiqueLimit
           /\ its # <<>>
              => /\ n = Min(Len(its), CritiqueLimit)
                 /\ \A k \in 1..n : parsed.items[k] = its[k]
           /\ its = <<>>
              => /\ n = 1
                 /\ parsed.items[1] = RawHead(txt)

C35_Witness ==
    /\ parsed.by = "critique"
    /\ Len(parseNumberedList(txt)) = CritiqueLimit + 1
    /\ Len(parsed.items) = CritiqueLimit
    /\ parsed.items[CritiqueLimit] = <<Tok(3, 1, txt[3].toks[1])>>

\* C40: a stored project's createdAt is the time of the save that created
\* its row, its updatedAt the time of its latest save, so that createdAt <=
\* updatedAt, and createdAt < updatedAt once it was saved again later.
C40_Timestamps ==
    \A id \in ProjectIds :
       projects[id].stored
       => /\ projects[id].createdAt = firstSaved[id]
          /\ projects[id].createdAt <= projects[id].updatedAt
          /\ projects[id].updatedAt > firstSaved[id]
             => projects[id].createdAt < projects[id].updatedAt

\* C36: every node of ideaTree has parentId null or the id of a node of
\* ideaTree.
C36_ParentIntegrity ==
    \A n \in ideaTree : n.parentId = 0 \/ n.parentId \in Ids(ideaTree)

\* the roots of the tree shown: its nodes with parentId null
Roots == {n.id : n \in {m \in ideaTree : m.parentId = 0}}

\* the delete handler ran past its selection test
DeleteStep == dialog'.text \in {"cannotDeleteRoot", "delete"}

\* C37: a Delete whose selection holds the root of the tree shown is
\* refused with 'Cannot delete the root node.' and leaves ideaTree as it is.
C37_RootNeverDeleted ==
    [][(DeleteStep /\ \E i \in 1..Len(selectionSet) : selectionSet[i] \in Roots)
       => /\ dialog' = Alert("cannotDeleteRoot")
          /\ ideaTree' = ideaTree]_vars

\* the ids on the parentId chain above the node id
Ancestors(tree, id) ==
    LET RECURSIVE Up(_)
        Up(x) ==
            LET at == {n \in tree : n.id = x}
                p == IF at = {} THEN 0 ELSE (CHOOSE n \in at : TRUE).parentId
            IN  IF p = 0 THEN {} ELSE {p} \cup Up(p)
    IN  Up(id)

\* id and its transitive descendants in tree
Subtree(tree, id) ==
    {id} \cup {n.id : n \in {m \in tree : id \in Ancestors(tree, m.id)}}

\* C38: a delete removes from ideaTree, from the graph nodes and, with their
\* incident edges, from the graph edges exactly the selected ids and their
\* transitive descendants, leaves every other node as it was, and empties
\* the selection.
C38_RemovesSubtree ==
    [][dialog' = Confirm("delete", TRUE)
       => LET gone == UNION {Subtree(ideaTree, selectionSet[i]) :
                                i \in 1..Len(selectionSet)}
          IN  /\ ideaTree' = {n \in ideaTree : n.id \notin gone}
              /\ nodes' = nodes \ gone
              /\ edges' = {e \in edges : e.from \notin gone /\ e.to \notin gone}
              /\ spliced' = gone
              /\ selectionSet' = <<>>]_vars

C38_Witness ==
    /\ dialog = Confirm("delete", TRUE)
    /\ spliced = {2, 3, 4}
    /\ ideaTree = {StarterNode(1)}
    /\ nodes = {1}
    /\ edges = {}
    /\ selectionSet = <<>>

\* C39: the handler of an AI response that is an error document adds no
\* node to ideaTree and changes no title and no content.
C39_FailureLeavesTree ==
    [][\A r \in pending :
          (r.outcome = "error" /\ r \notin pending') => ideaTree' = ideaTree]_vars

====
